---- MODULE Spec2Model ----
(***************************************************************************)
(* Model of the orchestration engine of codesense_mcp_poc:                 *)
(*   - the publish workflow of CodebaseScanner (scanner.py),               *)
(*   - the publish workflow of MCPGitHubPRCreator (mcp_pr_creator.py),     *)
(*   - the credential manager TokenManager (token_manager.py).             *)
(* Spec runs one publish workflow (scanner or creator) per behaviour;      *)
(* SpecTok runs the credential manager; SpecScan runs the scanner's main   *)
(* on the analyses of a scan; SpecAnalyze runs main file by file; SpecRepo  *)
(* runs the look-up of the repository identity on a remote.                *)
(***************************************************************************)
EXTENDS Naturals, Sequences, FiniteSets, TLC

VARIABLES
    prog,      \* which publish workflow runs: "scanner" | "creator" | "none"
    pc,        \* position of the workflow
    calls,     \* docker backend processes spawned so far: <<[server, tool]>>
    gits,      \* direct git commands issued so far: <<[cmd, end]>>
    diag,      \* the last diagnostic the workflow printed
    proc,      \* the backend process in flight
    pushOut,   \* how the push_files process ended
    pushResp,  \* what _run_mcp_tool handed to the caller for push_files
    prOut,     \* how the create_pull_request process ended
    prResp,    \* what _run_mcp_tool handed to the caller for create_pull_request
    mcpRet,    \* how CodebaseScanner._create_pr_via_mcp ended
    pushed,    \* how MCPGitHubPRCreator.push_branch ended
    ret,       \* what the workflow (create_github_pr / create_pr_workflow) returned
    config,    \* mcp_config.yaml: the enabled server ids, in file order
    env,       \* os.environ of the running process: variable name -> value
    envFile,   \* the .env file: [exists, lines]
    missing_tokens, \* TokenManager.missing_tokens: <<[key, value]>> in insertion order
    tpc,       \* position of the credential manager's process
    queue,     \* prompt_for_tokens: the variables still to be solicited
    tret,      \* what the last operation returned, if it was prompt_for_tokens or validate_setup
    lastCmd,   \* the docker command the last operation built, if it was _run_mcp_tool
    tlast,     \* the credential manager's last operation
    prevEnv,   \* os.environ before that operation
    saved,     \* missing_tokens as of the last _save_to_env_file
    status,    \* what the last operation returned, if it was check_tokens
    asked,     \* the variables the last prompt_for_tokens solicited, in order, if it was the last operation
    restarts,  \* processes started after the first
    security_keywords, \* prompt_config['security_keywords']
    analyses,  \* scan_codebase: the FileAnalysis list collected from analyze_file
    analysis,  \* main: the CodebaseAnalysis scan_codebase returned
    mpc,       \* position of main; "start" until scan_codebase has returned
    pr_strategy, \* main: "single" | "per-package"
    inputs,    \* the prompts main has put to the operator, in order
    applied,   \* the paths apply_changes has written, in order
    prCalls,   \* the create_github_pr calls main has made, in order
    direct,    \* a create_github_pr call made by another caller
    exit,      \* the exit status of main: "none" while running, "0", "1"
    python_files, \* scan_codebase: the files find_python_files returned, in order
    position,  \* scan_codebase: how many of them analyze_file has been called on
    model_calls, \* the positions of the files a model call was made for, in order
    last_file, \* the last analyze_file call, if it was the last operation: the response and how it ended
    prRuns,    \* how each create_github_pr call of main went, in order
    remote_url, \* the text the origin remote is read from (.git/config, or git's output)
    repo_info  \* the last repository identity look-up: who made it and what it gave

pubVars == <<prog, pc, calls, gits, diag, proc, pushOut, pushResp, prOut, prResp, mcpRet, pushed, ret>>
tokVars == <<config, env, envFile, missing_tokens, tpc, queue, tret, lastCmd, tlast, prevEnv, saved,
            status, asked, restarts>>
scanVars == <<security_keywords, analyses, analysis, mpc, pr_strategy, inputs, applied, prCalls, direct, exit,
             python_files, position, model_calls, last_file, prRuns, remote_url, repo_info>>

\* check_tokens: `result` before its loop
EmptyResult == [missing |-> <<>>, present |-> <<>>, not_needed |-> <<>>]

(***************************************************************************)
(* JSON values as json.loads returns them.  One record shape for all:      *)
(*   k        "none" (null / None), "dict", "list", "str", "num",          *)
(*            "garbage" (output that is not JSON, never a parsed value)    *)
(*   error    dict: key "error" is "absent", an object ("obj") or a "str"  *)
(*   result   dict: key "result" is "absent", "null", a "str" or an "obj"  *)
(*   html_url, url   keys of the result object: "absent", "" or a URL      *)
(*   other    dict: it has further keys (jsonrpc, id)                      *)
(*   has      list: "error" is an element; str: "error" is a substring     *)
(*   empty    list / str: no elements; num: zero                           *)
(***************************************************************************)
JV(k, error, result, html_url, url, other, has, empty) ==
    [k |-> k, error |-> error, result |-> result, html_url |-> html_url,
     url |-> url, other |-> other, has |-> has, empty |-> empty]

NoneV   == JV("none", "absent", "absent", "absent", "absent", FALSE, FALSE, TRUE)
Garbage == JV("garbage", "absent", "absent", "absent", "absent", FALSE, FALSE, TRUE)
EmptyDict == JV("dict", "absent", "absent", "absent", "absent", FALSE, FALSE, TRUE)

HtmlUrl == "https://github.com/o/r/pull/1"
ApiUrl  == "https://api.github.com/repos/o/r/pulls/1"

JDicts ==
    {EmptyDict} \cup
    { JV("dict", e, r, "absent", "absent", TRUE, FALSE, FALSE) :
        e \in {"absent", "obj", "str"}, r \in {"absent", "null", "str"} } \cup
    { JV("dict", e, "obj", h, u, TRUE, FALSE, FALSE) :
        e \in {"absent", "obj", "str"}, h \in {"absent", "", HtmlUrl}, u \in {"absent", ApiUrl} }

JOthers ==
    { JV("list", "absent", "absent", "absent", "absent", FALSE, FALSE, TRUE),
      JV("list", "absent", "absent", "absent", "absent", FALSE, FALSE, FALSE),
      JV("list", "absent", "absent", "absent", "absent", FALSE, TRUE, FALSE),
      JV("str", "absent", "absent", "absent", "absent", FALSE, FALSE, TRUE),
      JV("str", "absent", "absent", "absent", "absent", FALSE, FALSE, FALSE),
      JV("str", "absent", "absent", "absent", "absent", FALSE, TRUE, FALSE),
      JV("num", "absent", "absent", "absent", "absent", FALSE, FALSE, TRUE),
      JV("num", "absent", "absent", "absent", "absent", FALSE, FALSE, FALSE) }

\* every value json.loads can return
JVals == {NoneV} \cup JDicts \cup JOthers

\* Python truthiness: `not x` is ~Truthy(x)
Truthy(v) ==
    CASE v.k = "dict" -> (v.error # "absent" \/ v.result # "absent" \/ v.other)
      [] v.k \in {"list", "str", "num"} -> ~v.empty
      [] OTHER -> FALSE

\* Python `"error" in x`: "yes", "no", or "TypeError" (None and numbers)
InError(v) ==
    CASE v.k = "dict" -> IF v.error # "absent" THEN "yes" ELSE "no"
      [] v.k \in {"list", "str"} -> IF v.has THEN "yes" ELSE "no"
      [] OTHER -> "TypeError"

(***************************************************************************)
(* How a spawned process ends: subprocess.run could not launch it, it      *)
(* exceeded the timeout, or it exited with a status and an output.         *)
(***************************************************************************)
Outcome(kind, rc, out) == [kind |-> kind, rc |-> rc, out |-> out]

Pending == Outcome("pending", 0, Garbage)

ExitOutcomes ==
    { Outcome("exit", 0, o) : o \in JVals \cup {Garbage} } \cup
    { Outcome("exit", 1, o) : o \in {Garbage, NoneV,
          JV("dict", "absent", "obj", HtmlUrl, "absent", TRUE, FALSE, FALSE) } }

LaunchFail == Outcome("launch_fail", 1, Garbage)
TimedOut   == Outcome("timeout", 1, Garbage)

\* the docker process in flight; hangs: it will never produce a response
NoProc == [state |-> "none", hangs |-> FALSE]
Running(h) == [state |-> "running", hangs |-> h]

\* a value a workflow returns
RNone == [kind |-> "none", url |-> ""]
RUrl(u) == [kind |-> "url", url |-> u]
RRaise == [kind |-> "raise", url |-> ""]
RPending == [kind |-> "pending", url |-> ""]

\* what a _run_mcp_tool call handed to its caller: a value, or an exception
NoResp == [kind |-> "pending", v |-> NoneV]
Returned(v) == [kind |-> "return", v |-> v]
Raised == [kind |-> "raise", v |-> NoneV]

(***************************************************************************)
(* CodebaseScanner: create_github_pr / _create_pr_via_mcp / _run_mcp_tool  *)
(***************************************************************************)

\* mutant: the exit status is not looked at
Scanner_run_mcp_tool_NoExitCheck(o) ==
    CASE o.kind # "exit" -> NoneV
      [] o.out.k = "garbage" -> NoneV
      [] OTHER -> o.out

\* CodebaseScanner._run_mcp_tool: the value handed to the caller when the
\* process ended as o.  Every exception is caught and becomes None.
Scanner_run_mcp_tool(o) ==
    CASE o.kind = "launch_fail" -> NoneV
      [] o.kind = "timeout" -> NoneV
      [] o.kind = "exit" /\ o.rc # 0 -> NoneV
      [] o.kind = "exit" /\ o.rc = 0 /\ o.out.k = "garbage" -> NoneV
      [] OTHER -> o.out

\* mutant: the 'error' field is not looked at
ScannerCheckResponse_NoErrorCheck(r) ==
    IF ~Truthy(r) THEN "fail" ELSE "ok"

\* `if not r or "error" in r:` with the error_msg expression of the branch:
\* "ok" (go on), "fail" (return None) or "raise" (TypeError / AttributeError).
ScannerCheckResponse(r) ==
    IF ~Truthy(r) THEN "fail"
    ELSE CASE InError(r) = "TypeError" -> "raise"
           [] InError(r) = "no" -> "ok"
           [] OTHER -> IF r.k = "dict" /\ r.error = "obj" THEN "fail" ELSE "raise"

\* pr_result.get("result", {}) and html_url-or-url of it
ScannerExtractUrl(r) ==
    CASE r.k # "dict" -> RRaise
      [] r.result = "absent" -> RNone
      [] r.result \in {"null", "str"} -> RRaise
      [] r.html_url \notin {"absent", ""} -> RUrl(r.html_url)
      [] r.url \notin {"absent", ""} -> RUrl(r.url)
      [] OTHER -> RNone

\* mutant: no handler around _create_pr_via_mcp
ScannerWrap_NoHandler(m) == m

\* create_github_pr's try/except around _create_pr_via_mcp
ScannerWrap(m) == IF m.kind = "url" THEN m ELSE RNone

\* the ways a process in flight can end; the scanner passes timeout=60
ScannerEnds(p) ==
    IF p.hangs THEN {TimedOut} ELSE ExitOutcomes \cup {LaunchFail, TimedOut}

GithubPush == [server |-> "github", tool |-> "push_files"]
GithubPr   == [server |-> "github", tool |-> "create_pull_request"]

\* create_github_pr up to the first subprocess.run
create_github_pr ==
    /\ prog = "scanner" /\ pc = "start"
    /\ \E enabled \in BOOLEAN, token \in BOOLEAN, repoInfo \in BOOLEAN :
         IF enabled /\ token /\ repoInfo
         THEN /\ pc' = "push_wait"
              /\ calls' = Append(calls, GithubPush)
              /\ \E h \in BOOLEAN : proc' = Running(h)
              /\ UNCHANGED <<ret, diag>>
         ELSE /\ pc' = "done"
              /\ ret' = RNone
              /\ diag' = (CASE ~enabled -> "github_not_enabled"
                            [] ~token -> "token_not_set"
                            [] OTHER -> "no_repo_info")
              /\ UNCHANGED <<calls, proc>>
    /\ UNCHANGED <<prog, gits, pushOut, pushResp, prOut, prResp, mcpRet, pushed>>
    /\ UNCHANGED <<tokVars, scanVars>>

\* the push_files process ends; _create_pr_via_mcp runs on to the second
\* subprocess.run or to its return
ScannerPushDone ==
    /\ prog = "scanner" /\ pc = "push_wait"
    /\ \E o \in ScannerEnds(proc) :
         LET r == Scanner_run_mcp_tool(o)
             c == ScannerCheckResponse(r) IN
         /\ pushOut' = o
         /\ pushResp' = Returned(r)
         /\ IF c = "ok"
            THEN /\ pc' = "pr_wait"
                 /\ calls' = Append(calls, GithubPr)
                 /\ \E h \in BOOLEAN : proc' = Running(h)
                 /\ diag' = "files_pushed"
                 /\ UNCHANGED <<mcpRet, ret>>
            ELSE /\ pc' = "done"
                 /\ proc' = NoProc
                 /\ mcpRet' = (IF c = "raise" THEN RRaise ELSE RNone)
                 /\ ret' = ScannerWrap(mcpRet')
                 /\ diag' = (IF c = "raise" THEN "mcp_error" ELSE "push_failed")
                 /\ UNCHANGED calls
    /\ UNCHANGED <<prog, gits, prOut, prResp, pushed>>
    /\ UNCHANGED <<tokVars, scanVars>>

\* the create_pull_request process ends; _create_pr_via_mcp returns
ScannerPrDone ==
    /\ prog = "scanner" /\ pc = "pr_wait"
    /\ \E o \in ScannerEnds(proc) :
         LET r == Scanner_run_mcp_tool(o)
             c == ScannerCheckResponse(r) IN
         /\ prOut' = o
         /\ prResp' = Returned(r)
         /\ mcpRet' = (CASE c = "ok" -> ScannerExtractUrl(r)
                         [] c = "raise" -> RRaise
                         [] OTHER -> RNone)
         /\ ret' = ScannerWrap(mcpRet')
         /\ diag' = (CASE mcpRet'.kind = "raise" -> "mcp_error"
                       [] c = "fail" -> "pr_failed"
                       [] mcpRet'.kind = "url" -> "pr_created"
                       [] OTHER -> "no_url")
    /\ pc' = "done"
    /\ proc' = NoProc
    /\ UNCHANGED <<prog, calls, gits, pushOut, pushResp, pushed>>
    /\ UNCHANGED <<tokVars, scanVars>>

(***************************************************************************)
(* MCPGitHubPRCreator: create_pr_workflow and its three steps              *)
(***************************************************************************)

\* how a direct git command ends: exit 0, CalledProcessError (check=True),
\* or git could not be launched (OSError, which no handler here names)
GitEnds == {"ok", "fail", "oserror"}

\* mutant: the 'error' field is not looked at
Creator_run_mcp_tool_IgnoresError(o) ==
    CASE o.kind # "exit" -> Raised
      [] o.rc # 0 -> Raised
      [] o.out.k = "garbage" -> Raised
      [] o.out.k # "dict" -> Raised
      [] OTHER -> Returned(o.out)

\* MCPGitHubPRCreator._run_mcp_tool: the payload, or an exception.  Only
\* CalledProcessError and JSONDecodeError are re-raised by name; the others
\* (OSError, TypeError, AttributeError) propagate as they are.
Creator_run_mcp_tool(o) ==
    CASE o.kind # "exit" -> Raised
      [] o.rc # 0 -> Raised
      [] o.out.k = "garbage" -> Raised
      [] InError(o.out) # "no" -> Raised
      [] o.out.k # "dict" -> Raised
      [] OTHER -> Returned(o.out)

\* the ways a process in flight can end; no timeout is passed
CreatorEnds(p) ==
    IF p.hangs THEN {} ELSE ExitOutcomes \cup {LaunchFail}

\* mutant: the fallback's failure is not reported
PushBranchResult_FallbackAlwaysTrue(toolOk, g) ==
    CASE toolOk -> "true"
      [] g \in {"ok", "fail"} -> "true"
      [] OTHER -> "raise"

\* push_branch's result from the tool call and the fallback `git push`
\* (g is "none" when no fallback ran)
PushBranchResult(toolOk, g) ==
    CASE toolOk -> "true"
      [] g = "ok" -> "true"
      [] g = "fail" -> "false"
      [] OTHER -> "raise"

\* mutant: url is taken before html_url
CreatorExtractUrl_UrlFirst(r) ==
    CASE r.kind # "return" -> RNone
      [] r.v.result # "obj" -> RNone
      [] r.v.url \notin {"absent", ""} -> RUrl(r.v.url)
      [] r.v.html_url \notin {"absent", ""} -> RUrl(r.v.html_url)
      [] OTHER -> RNone

\* create_pull_request's result.get("html_url") or result.get("url"),
\* inside `except Exception: return None`
CreatorExtractUrl(r) ==
    CASE r.kind # "return" -> RNone
      [] r.v.result # "obj" -> RNone
      [] r.v.html_url \notin {"absent", ""} -> RUrl(r.v.html_url)
      [] r.v.url \notin {"absent", ""} -> RUrl(r.v.url)
      [] OTHER -> RNone

Git(cmd, end) == [cmd |-> cmd, end |-> end]

\* the git commands of create_branch_and_commit, in order
CommitCmds == <<"checkout", "add", "commit">>

\* mutant: the workflow goes on to the pull request when push_branch returned False
AfterPush_IgnoresResult(b) ==
    CASE b \in {"true", "false"} -> [pc |-> "c_pr", ret |-> RPending]
      [] OTHER -> [pc |-> "done", ret |-> RRaise]

\* where the workflow goes once push_branch ended as b
AfterPush(b) ==
    CASE b = "true" -> [pc |-> "c_pr", ret |-> RPending]
      [] b = "false" -> [pc |-> "done", ret |-> RNone]
      [] OTHER -> [pc |-> "done", ret |-> RRaise]

\* what push_branch prints last
PushDiag(toolOk, b) ==
    CASE toolOk -> "pushed_via_mcp"
      [] b = "true" -> "pushed_via_git"
      [] b = "false" -> "push_failed"
      [] OTHER -> "uncaught"

\* step 1: checkout -b, add, commit; stops at the first that fails
create_branch_and_commit ==
    /\ prog = "creator" /\ pc = "start"
    /\ \E n \in 1..Len(CommitCmds), g \in GitEnds :
         /\ (n < Len(CommitCmds) => g # "ok")
         /\ gits' = gits \o [i \in 1..n |-> Git(CommitCmds[i], IF i < n THEN "ok" ELSE g)]
         /\ pc' = (IF g = "ok" THEN "c_push" ELSE "done")
         /\ ret' = (CASE g = "ok" -> RPending
                      [] g = "fail" -> RNone
                      [] OTHER -> RRaise)
         /\ diag' = (CASE g = "ok" -> "committed"
                       [] g = "fail" -> "git_failed"
                       [] OTHER -> "uncaught")
    /\ UNCHANGED <<prog, calls, proc, pushOut, pushResp, prOut, prResp, mcpRet, pushed>>
    /\ UNCHANGED <<tokVars, scanVars>>

\* step 2, push_branch up to its subprocess.run of docker: get_repo_info,
\* and on its failure the fallback `git push` at once
push_branch ==
    /\ prog = "creator" /\ pc = "c_push"
    /\ \E repoInfo \in BOOLEAN :
         IF repoInfo
         THEN /\ gits' = Append(gits, Git("remote", "ok"))
              /\ calls' = Append(calls, GithubPush)
              /\ \E h \in BOOLEAN : proc' = Running(h)
              /\ pc' = "c_push_wait"
              /\ UNCHANGED <<pushed, ret, diag>>
         ELSE \E g \in GitEnds :
              /\ gits' = gits \o <<Git("remote", "fail"), Git("push", g)>>
              /\ pushed' = PushBranchResult(FALSE, g)
              /\ pc' = AfterPush(pushed').pc
              /\ ret' = AfterPush(pushed').ret
              /\ diag' = PushDiag(FALSE, pushed')
              /\ UNCHANGED <<calls, proc>>
    /\ UNCHANGED <<prog, pushOut, pushResp, prOut, prResp, mcpRet>>
    /\ UNCHANGED <<tokVars, scanVars>>

\* step 2, the push_files process ends: success, or the fallback `git push`
PushBranchDone ==
    /\ prog = "creator" /\ pc = "c_push_wait"
    /\ \E o \in CreatorEnds(proc) :
         LET r == Creator_run_mcp_tool(o) IN
         /\ pushOut' = o
         /\ pushResp' = r
         /\ IF r.kind = "return"
            THEN /\ pushed' = PushBranchResult(TRUE, "none")
                 /\ UNCHANGED gits
            ELSE \E g \in GitEnds :
                 /\ gits' = Append(gits, Git("push", g))
                 /\ pushed' = PushBranchResult(FALSE, g)
         /\ diag' = PushDiag(r.kind = "return", pushed')
    /\ pc' = AfterPush(pushed').pc
    /\ ret' = AfterPush(pushed').ret
    /\ proc' = NoProc
    /\ UNCHANGED <<prog, calls, prOut, prResp, mcpRet>>
    /\ UNCHANGED <<tokVars, scanVars>>

\* step 3, create_pull_request up to its subprocess.run of docker
create_pull_request ==
    /\ prog = "creator" /\ pc = "c_pr"
    /\ \E repoInfo \in BOOLEAN :
         /\ gits' = Append(gits, Git("remote", IF repoInfo THEN "ok" ELSE "fail"))
         /\ IF repoInfo
            THEN /\ calls' = Append(calls, GithubPr)
                 /\ \E h \in BOOLEAN : proc' = Running(h)
                 /\ pc' = "c_pr_wait"
                 /\ UNCHANGED <<ret, diag>>
            ELSE /\ pc' = "done"
                 /\ ret' = RNone
                 /\ diag' = "pr_failed"
                 /\ UNCHANGED <<calls, proc>>
    /\ UNCHANGED <<prog, pushOut, pushResp, prOut, prResp, mcpRet, pushed>>
    /\ UNCHANGED <<tokVars, scanVars>>

\* step 3, the create_pull_request process ends; the workflow returns
CreatePullRequestDone ==
    /\ prog = "creator" /\ pc = "c_pr_wait"
    /\ \E o \in CreatorEnds(proc) :
         /\ prOut' = o
         /\ prResp' = Creator_run_mcp_tool(o)
         /\ ret' = CreatorExtractUrl(prResp')
         /\ diag' = (CASE ret'.kind = "url" -> "pr_created"
                       [] prResp'.kind = "return" /\ prResp'.v.result \in {"absent", "obj"} -> "no_url"
                       [] OTHER -> "pr_failed")
    /\ pc' = "done"
    /\ proc' = NoProc
    /\ UNCHANGED <<prog, calls, gits, pushOut, pushResp, mcpRet, pushed>>
    /\ UNCHANGED <<tokVars, scanVars>>

(***************************************************************************)
(* The publish specification: one workflow run per behaviour               *)
(***************************************************************************)
PubInit ==
    /\ prog \in {"scanner", "creator"}
    /\ pc = "start"
    /\ calls = <<>>
    /\ gits = <<>>
    /\ diag = ""
    /\ proc = NoProc
    /\ pushOut = Pending
    /\ pushResp = NoResp
    /\ prOut = Pending
    /\ prResp = NoResp
    /\ mcpRet = RPending
    /\ pushed = "pending"
    /\ ret = RPending

\* the credential manager is not part of a publish run
TokIdle ==
    /\ config = <<>>
    /\ env = <<>>
    /\ envFile = [exists |-> FALSE, lines |-> <<>>]
    /\ missing_tokens = <<>>
    /\ tpc = "idle"
    /\ queue = <<>>
    /\ tret = "none"
    /\ lastCmd = [server |-> "none"]
    /\ tlast = "none"
    /\ prevEnv = <<>>
    /\ saved = <<>>
    /\ status = EmptyResult
    /\ asked = <<>>
    /\ restarts = 0

\* no repository identity has been looked up
NoRepoInfo == [by |-> "none", raised |-> FALSE, owner |-> <<>>, repo |-> <<>>]

\* no scanner run is part of the run
ScanIdle ==
    /\ security_keywords = <<>>
    /\ analyses = <<>>
    /\ analysis = <<>>
    /\ mpc = "idle"
    /\ pr_strategy = "none"
    /\ inputs = <<>>
    /\ applied = <<>>
    /\ prCalls = <<>>
    /\ direct = <<>>
    /\ exit = "none"
    /\ python_files = <<>>
    /\ position = 0
    /\ model_calls = <<>>
    /\ last_file = <<>>
    /\ prRuns = <<>>
    /\ remote_url = <<>>
    /\ repo_info = NoRepoInfo

Init == PubInit /\ TokIdle /\ ScanIdle

Next ==
    \/ create_github_pr
    \/ ScannerPushDone
    \/ ScannerPrDone
    \/ create_branch_and_commit
    \/ push_branch
    \/ PushBranchDone
    \/ create_pull_request
    \/ CreatePullRequestDone

vars == <<pubVars, tokVars, scanVars>>

Spec == Init /\ [][Next]_vars

(***************************************************************************)
(* TokenManager (token_manager.py).  A string is a sequence of characters; *)
(* a character is "=", "#", " ", "\r" or a run of other characters such as *)
(* "GITHUB_TOKEN" that holds none of those four.                           *)
(***************************************************************************)
MaxValLen == 3
MaxRestarts == 1

\* characters the operator types at a prompt
ValChars == {"a", "=", "\r"}

RECURSIVE SeqsOver(_, _)
SeqsOver(S, n) ==
    IF n = 0 THEN {<<>>}
    ELSE LET shorter == SeqsOver(S, n - 1) IN
         shorter \cup { Append(q, c) : q \in {x \in shorter : Len(x) = n - 1}, c \in S }

\* the static catalog: server id -> requires_auth and the variables of
\* env_var.split(',') (stripped), in order
GITHUB_TOKEN == <<"GITHUB_TOKEN">>
SLACK_BOT_TOKEN == <<"SLACK_BOT_TOKEN">>
SLACK_TEAM_ID == <<"SLACK_TEAM_ID">>

MCP_CATALOG ==
    [ github |-> [requires_auth |-> TRUE, env_var |-> <<GITHUB_TOKEN>>],
      slack |-> [requires_auth |-> TRUE, env_var |-> <<SLACK_BOT_TOKEN, SLACK_TEAM_ID>>],
      filesystem |-> [requires_auth |-> FALSE, env_var |-> <<>>] ]

\* what input() can return for the prompt of env_var (the line typed, without
\* its newline)
Typed(env_var) ==
    IF env_var = GITHUB_TOKEN THEN SeqsOver(ValChars, MaxValLen) ELSE {<<>>, <<"a">>}

\* str.strip(): whitespace off both ends
Whitespace == {" ", "\r", "\n"}
RECURSIVE LStrip(_)
LStrip(str) == IF str # <<>> /\ Head(str) \in Whitespace THEN LStrip(Tail(str)) ELSE str
RECURSIVE RStrip(_)
RStrip(str) ==
    IF str # <<>> /\ str[Len(str)] \in Whitespace
    THEN RStrip(SubSeq(str, 1, Len(str) - 1)) ELSE str
Strip(str) == RStrip(LStrip(str))

\* '=' in line, and line.split('=', 1)
SplitKeyValue(str) ==
    LET FirstEq == CHOOSE i \in DOMAIN str : str[i] = "=" /\ \A j \in 1..(i - 1) : str[j] # "=" IN
    [key |-> SubSeq(str, 1, FirstEq - 1), value |-> SubSeq(str, FirstEq + 1, Len(str))]

\* one line of the .env file as both readers take it: <<[key, value]>>, or
\* <<>> for a blank line, a comment or a line without '='
ParseLine(line) ==
    LET l == Strip(line) IN
    IF l # <<>> /\ l[1] # "#" /\ (\E i \in DOMAIN l : l[i] = "=") THEN <<SplitKeyValue(l)>> ELSE <<>>

\* f"{key}={value}\n", without the newline
FormatLine(kv) == kv.key \o <<"=">> \o kv.value

\* `for line in f` on a file opened with open(path, 'r'): the text written with
\* one "\n" is cut at every "\r" as well (universal newlines); a "\r" right
\* before the "\n" gives an empty piece here, which both readers skip
RECURSIVE SplitCR(_)
SplitCR(str) ==
    LET FirstCR == CHOOSE i \in DOMAIN str : str[i] = "\r" /\ \A j \in 1..(i - 1) : str[j] # "\r" IN
    IF \E i \in DOMAIN str : str[i] = "\r"
    THEN <<SubSeq(str, 1, FirstCR - 1)>> \o SplitCR(SubSeq(str, FirstCR + 1, Len(str)))
    ELSE <<str>>
RECURSIVE FileLines(_)
FileLines(written) ==
    IF written = <<>> THEN <<>> ELSE SplitCR(Head(written)) \o FileLines(Tail(written))

\* the key, value pairs of the lines both readers accept, in file order
RECURSIVE ParsedLines(_)
ParsedLines(lines) ==
    IF lines = <<>> THEN <<>> ELSE ParseLine(Head(lines)) \o ParsedLines(Tail(lines))

\* dict[key] = value on an insertion-ordered dict
DictSet(d, k, v) ==
    IF \E i \in DOMAIN d : d[i].key = k
    THEN [i \in DOMAIN d |-> IF d[i].key = k THEN [key |-> k, value |-> v] ELSE d[i]]
    ELSE Append(d, [key |-> k, value |-> v])

RECURSIVE DictUpdate(_, _)
DictUpdate(d, m) ==
    IF m = <<>> THEN d ELSE DictUpdate(DictSet(d, Head(m).key, Head(m).value), Tail(m))

\* the dict `existing` that _save_to_env_file builds from the file
ReadLines(written) == DictUpdate(<<>>, ParsedLines(FileLines(written)))

\* os.environ[key] = value, os.getenv(key)
NoEnv == [k \in {} |-> <<>>]
SetEnv(e, k, v) == [x \in (DOMAIN e) \cup {k} |-> IF x = k THEN v ELSE e[x]]
GetEnv(e, k) == IF k \in DOMAIN e THEN e[k] ELSE <<>>

\* the two header comments and the blank line _save_to_env_file writes first
FileHeader ==
    << <<"#", " ", "MCP", " ", "Server", " ", "Tokens">>,
       <<"#", " ", "Generated", " ", "by", " ", "Token", " ", "Manager">>,
       <<>> >>

NoFile == [exists |-> FALSE, lines |-> <<>>]

\* TokenManager._save_to_env_file: the file after the save
SaveToEnvFile(file, tokens) ==
    LET existing == IF file.exists THEN ReadLines(file.lines) ELSE <<>>
        merged == DictUpdate(existing, tokens) IN
    [exists |-> TRUE,
     lines |-> FileHeader \o [i \in DOMAIN merged |-> FormatLine(merged[i])]]

\* the loop of load_from_env_file: os.environ[key] = value line after line;
\* os.environ[''] = value raises OSError and ends the loop
RECURSIVE LoadEntries(_, _)
LoadEntries(e, m) ==
    IF m = <<>> THEN [env |-> e, raised |-> FALSE]
    ELSE IF Head(m).key = <<>> THEN [env |-> e, raised |-> TRUE]
    ELSE LoadEntries(SetEnv(e, Head(m).key, Head(m).value), Tail(m))

\* TokenManager.load_from_env_file: os.environ after the load, and whether the
\* load raised
LoadFromEnvFile(file, e) ==
    IF ~file.exists THEN [env |-> e, raised |-> FALSE]
    ELSE LoadEntries(e, ParsedLines(FileLines(file.lines)))

\* TokenManager.get_enabled_servers: the ids of config['servers'] that are
\* enabled, in the order of the config
get_enabled_servers(cfg) ==
    LET on == SelectSeq(cfg, LAMBDA s : s.enabled) IN [i \in DOMAIN on |-> on[i].id]

IsEnabled(cfg, server_id) ==
    \E i \in DOMAIN get_enabled_servers(cfg) : get_enabled_servers(cfg)[i] = server_id

InCatalog(server_id) == server_id \in DOMAIN MCP_CATALOG

\* mutant: any(...) in place of all(...)
AllPresent_Any(e, server_id) ==
    \E i \in DOMAIN MCP_CATALOG[server_id].env_var :
        GetEnv(e, MCP_CATALOG[server_id].env_var[i]) # <<>>

\* all(os.getenv(var) for var in env_vars)
AllPresent(e, server_id) ==
    \A i \in DOMAIN MCP_CATALOG[server_id].env_var :
        GetEnv(e, MCP_CATALOG[server_id].env_var[i]) # <<>>

\* mutant: a server that is not in the catalog counts as needing no token
check_tokens_UnknownNotNeeded(e, cfg) ==
    LET enabled == get_enabled_servers(cfg)
        known == SelectSeq(enabled, InCatalog)
        auth(x) == MCP_CATALOG[x].requires_auth IN
    [ missing |-> SelectSeq(known, LAMBDA x : auth(x) /\ ~AllPresent(e, x)),
      present |-> SelectSeq(known, LAMBDA x : auth(x) /\ AllPresent(e, x)),
      not_needed |-> SelectSeq(enabled, LAMBDA x : ~InCatalog(x) \/ ~auth(x)) ]

\* TokenManager.check_tokens: the three lists, in the order of the config
check_tokens(e, cfg) ==
    LET known == SelectSeq(get_enabled_servers(cfg), InCatalog)
        auth(x) == MCP_CATALOG[x].requires_auth IN
    [ missing |-> SelectSeq(known, LAMBDA x : auth(x) /\ ~AllPresent(e, x)),
      present |-> SelectSeq(known, LAMBDA x : auth(x) /\ AllPresent(e, x)),
      not_needed |-> SelectSeq(known, LAMBDA x : ~auth(x)) ]

\* the variables of the given servers, one after the other
RECURSIVE VarsOf(_)
VarsOf(servers) ==
    IF servers = <<>> THEN <<>>
    ELSE MCP_CATALOG[Head(servers)].env_var \o VarsOf(Tail(servers))

\* TokenManager.get_env_dict: every set, non-empty variable of every enabled
\* server of the catalog that requires auth
get_env_dict(e, cfg) ==
    LET known == SelectSeq(get_enabled_servers(cfg), InCatalog)
        vs == VarsOf(SelectSeq(known, LAMBDA x : MCP_CATALOG[x].requires_auth))
        set == SelectSeq(vs, LAMBDA v : GetEnv(e, v) # <<>>) IN
    [i \in DOMAIN set |-> [key |-> set[i], value |-> GetEnv(e, set[i])]]

\* CodebaseScanner._run_mcp_tool: the docker command for a call to `server`
DockerCmd(e, cfg, server) ==
    LET d == get_env_dict(e, cfg) IN
    [ head |-> <<"docker", "run", "-i", "--rm">>,
      e_flags |-> [i \in DOMAIN d |-> FormatLine(d[i])],
      volume |-> "repo_path:/workspace",
      image |-> <<"mcp/", server>> ]

\* what the process starts with
OldVal == <<"o">>
InitEnvs ==
    { NoEnv,
      SetEnv(NoEnv, GITHUB_TOKEN, OldVal),
      SetEnv(NoEnv, GITHUB_TOKEN, <<>>),
      SetEnv(SetEnv(NoEnv, SLACK_BOT_TOKEN, OldVal), SLACK_TEAM_ID, OldVal),
      SetEnv(SetEnv(NoEnv, GITHUB_TOKEN, OldVal), SLACK_BOT_TOKEN, OldVal) }

HandFile ==
    [exists |-> TRUE,
     lines |-> << <<"#", " ", "tokens">>,
                  <<>>,
                  <<" ", "GITHUB_TOKEN", "=", "f", " ">>,
                  <<"export">>,
                  <<"SLACK_TEAM_ID", "=", "f", "=", "#">> >>]
InitFiles == {NoFile, HandFile}

Server(id, enabled) == [id |-> id, enabled |-> enabled]
Configs ==
    { <<Server("github", TRUE), Server("slack", TRUE), Server("filesystem", TRUE),
        Server("unknown", TRUE)>>,
      <<Server("filesystem", TRUE), Server("slack", FALSE), Server("github", TRUE)>> }

NoCmd == [server |-> "none"]

\* a process starts: TokenManager.__init__ with its config, the caller's
\* environment and whatever .env file is there
TokInit ==
    /\ config \in Configs
    /\ env \in InitEnvs
    /\ envFile \in InitFiles
    /\ missing_tokens = <<>>
    /\ tpc = "new"
    /\ queue = <<>>
    /\ tret = "none"
    /\ lastCmd = NoCmd
    /\ tlast = "none"
    /\ prevEnv = NoEnv
    /\ saved = <<>>
    /\ status = EmptyResult
    /\ asked = <<>>
    /\ restarts = 0

\* setup_tokens / CodebaseScanner.__init__: load_from_env_file right after
\* the manager is built; an exception of the load ends the process
load_from_env_file ==
    /\ tpc = "new"
    /\ LET r == LoadFromEnvFile(envFile, env) IN
         /\ env' = r.env
         /\ tpc' = (IF r.raised THEN "crashed" ELSE "ready")
         /\ tret' = (IF r.raised THEN "raise" ELSE "none")
    /\ prevEnv' = env
    /\ tlast' = "load"
    /\ UNCHANGED <<config, envFile, missing_tokens, queue, lastCmd, saved, status, asked, restarts>>
    /\ UNCHANGED <<pubVars, scanVars>>

\* mutant: the interactive flag is not consulted
prompt_entry_AlwaysPrompts(st, interactive) ==
    IF st.missing = <<>> THEN [tret |-> "true", tpc |-> "ready", queue |-> <<>>]
    ELSE [tret |-> "none", tpc |-> "prompting", queue |-> VarsOf(st.missing)]

\* prompt_for_tokens up to its first input(): the early returns when nothing
\* is missing or when not interactive, else the variables to solicit
prompt_entry(st, interactive) ==
    CASE st.missing = <<>> -> [tret |-> "true", tpc |-> "ready", queue |-> <<>>]
      [] st.missing # <<>> /\ ~interactive -> [tret |-> "false", tpc |-> "ready", queue |-> <<>>]
      [] OTHER -> [tret |-> "none", tpc |-> "prompting", queue |-> VarsOf(st.missing)]

\* prompt_for_tokens(interactive) up to its first input() or its early return
prompt_for_tokens ==
    /\ tpc = "ready"
    /\ \E interactive \in BOOLEAN :
         LET r == prompt_entry(check_tokens(env, config), interactive) IN
         /\ tret' = r.tret /\ tpc' = r.tpc /\ queue' = r.queue
         /\ tlast' = (IF interactive THEN "prompt" ELSE "report")
    /\ prevEnv' = env
    /\ asked' = <<>>
    /\ lastCmd' = NoCmd
    /\ status' = EmptyResult
    /\ UNCHANGED <<config, env, envFile, missing_tokens, saved, restarts>>
    /\ UNCHANGED <<pubVars, scanVars>>

\* one input() of the loop: a token, or nothing but whitespace to skip
PromptVar ==
    /\ tpc = "prompting" /\ queue # <<>>
    /\ \E typed \in Typed(Head(queue)) :
         LET token == Strip(typed) IN
         IF token # <<>>
         THEN /\ missing_tokens' = DictSet(missing_tokens, Head(queue), token)
              /\ env' = SetEnv(env, Head(queue), token)
         ELSE UNCHANGED <<missing_tokens, env>>
    /\ queue' = Tail(queue)
    /\ asked' = Append(asked, Head(queue))
    /\ tlast' = "input"
    /\ UNCHANGED <<config, envFile, tpc, tret, lastCmd, prevEnv, saved, status, restarts>>
    /\ UNCHANGED <<pubVars, scanVars>>

\* mutant: the partitions computed when the call started are used again
final_status_Stale(e, cfg) == check_tokens(prevEnv, cfg)

\* prompt_for_tokens: final_status = self.check_tokens() after the loop
final_status(e, cfg) == check_tokens(e, cfg)

\* after the loop: the offer to save, then the final check
PromptFinish ==
    /\ tpc = "prompting" /\ queue = <<>>
    /\ \E save \in BOOLEAN :
         IF missing_tokens # <<>> /\ save
         THEN /\ envFile' = SaveToEnvFile(envFile, missing_tokens)
              /\ saved' = missing_tokens
              /\ tlast' = "save"
         ELSE /\ UNCHANGED <<envFile, saved>>
              /\ tlast' = "nosave"
    /\ tret' = (IF final_status(env, config).missing = <<>> THEN "true" ELSE "false")
    /\ tpc' = "ready"
    /\ UNCHANGED <<config, env, missing_tokens, queue, lastCmd, prevEnv, status, asked, restarts>>
    /\ UNCHANGED <<pubVars, scanVars>>

\* CodebaseScanner._run_mcp_tool up to subprocess.run, reached from
\* create_github_pr: the command it builds for the github server
BuildDockerCmd ==
    /\ tpc = "ready"
    /\ IsEnabled(config, "github")
    /\ GetEnv(env, GITHUB_TOKEN) # <<>>
    /\ lastCmd' = [server |-> "github", cmd |-> DockerCmd(env, config, "github")]
    /\ tlast' = "cmd"
    /\ prevEnv' = env
    /\ tret' = "none"
    /\ status' = EmptyResult
    /\ asked' = <<>>
    /\ UNCHANGED <<config, env, envFile, missing_tokens, tpc, queue, saved, restarts>>
    /\ UNCHANGED <<pubVars, scanVars>>

\* a call of check_tokens (CodebaseScanner.__init__ after the load, or any
\* caller of the manager)
CheckTokens ==
    /\ tpc = "ready"
    /\ status' = check_tokens(env, config)
    /\ tlast' = "check"
    /\ prevEnv' = env
    /\ tret' = "none"
    /\ lastCmd' = NoCmd
    /\ asked' = <<>>
    /\ UNCHANGED <<config, env, envFile, missing_tokens, tpc, queue, saved, restarts>>
    /\ UNCHANGED <<pubVars, scanVars>>

\* TokenManager.validate_setup
validate_setup ==
    /\ tpc = "ready"
    /\ tret' = (IF check_tokens(env, config).missing = <<>> THEN "true" ELSE "false")
    /\ tlast' = "validate"
    /\ prevEnv' = env
    /\ lastCmd' = NoCmd
    /\ status' = EmptyResult
    /\ asked' = <<>>
    /\ UNCHANGED <<config, env, envFile, missing_tokens, tpc, queue, saved, restarts>>
    /\ UNCHANGED <<pubVars, scanVars>>

\* the process ends and a new one starts later, with the caller's environment
\* of that time; the .env file stays
Restart ==
    /\ tpc \in {"ready", "crashed"} /\ restarts < MaxRestarts
    /\ env' \in InitEnvs
    /\ missing_tokens' = <<>>
    /\ tpc' = "new"
    /\ queue' = <<>>
    /\ tret' = "none"
    /\ lastCmd' = NoCmd
    /\ tlast' = "restart"
    /\ prevEnv' = NoEnv
    /\ status' = EmptyResult
    /\ asked' = <<>>
    /\ restarts' = restarts + 1
    /\ UNCHANGED <<config, envFile, saved>>
    /\ UNCHANGED <<pubVars, scanVars>>

\* the publish workflows are not part of a credential-manager run
PubIdle ==
    /\ prog = "none"
    /\ pc = "idle"
    /\ calls = <<>>
    /\ gits = <<>>
    /\ diag = ""
    /\ proc = NoProc
    /\ pushOut = Pending
    /\ pushResp = NoResp
    /\ prOut = Pending
    /\ prResp = NoResp
    /\ mcpRet = RPending
    /\ pushed = "pending"
    /\ ret = RPending

InitTok == TokInit /\ PubIdle /\ ScanIdle

NextTok ==
    \/ load_from_env_file
    \/ prompt_for_tokens
    \/ PromptVar
    \/ PromptFinish
    \/ BuildDockerCmd
    \/ CheckTokens
    \/ validate_setup
    \/ Restart

SpecTok == InitTok /\ [][NextTok]_vars

(***************************************************************************)
(* The scanner's top-level run (scanner.py: scan_codebase, main).  A text  *)
(* is a sequence of characters, a path the sequence of its parts.          *)
(***************************************************************************)
MaxFiles == 3

LOW == "low"
MEDIUM == "medium"
HIGH == "high"

\* str.lower() on the letters the texts are made of
Lower(text) ==
    LET LowerChar(c) == CASE c = "X" -> "x" [] c = "S" -> "s" [] OTHER -> c IN
    [i \in DOMAIN text |-> LowerChar(text[i])]

\* keyword in text
Contains(text, keyword) ==
    \E i \in 0..(Len(text) - Len(keyword)) : SubSeq(text, i + 1, i + Len(keyword)) = keyword

\* what analyze_file returned for the files of a repository
FileAnalysis(file_path, changes_made, risk_level, risk_reasoning) ==
    [file_path |-> file_path, changes_made |-> changes_made, risk_level |-> risk_level,
     risk_reasoning |-> risk_reasoning]

TextOk == <<"o", "k">>
TextDoc == <<"d", "o", "c">>
TextUpperXss == <<"a", " ", "X", "S", "S">>
TextFixXss == <<"x", "s", "s", " ", "f", "i", "x">>

FileResults ==
    { FileAnalysis(<<"api", "a.py">>, <<TextDoc>>, LOW, TextOk),
      FileAnalysis(<<"api", "b.py">>, <<>>, MEDIUM, TextUpperXss),
      FileAnalysis(<<"core", "c.py">>, <<TextDoc, TextFixXss>>, MEDIUM, TextOk),
      FileAnalysis(<<"d.py">>, <<TextDoc>>, HIGH, TextOk),
      FileAnalysis(<<"core", "sub", "e.py">>, <<TextDoc, TextDoc, TextDoc>>, LOW, TextOk) }

\* the lists scan_codebase can collect: no file twice
RECURSIVE ListsOf(_, _)
ListsOf(S, n) ==
    IF n = 0 THEN {<<>>}
    ELSE LET shorter == ListsOf(S, n - 1) IN
         shorter \cup { Append(q, x) : q \in {y \in shorter : Len(y) = n - 1}, x \in S }
AnalysesLists ==
    { q \in ListsOf(FileResults, MaxFiles) : \A i, j \in DOMAIN q : q[i] = q[j] => i = j }

\* prompt_config['security_keywords']: the default kind of list (lower case),
\* a configured list in upper case, and an empty list
KeywordLists == { << <<"x", "s", "s">> >>, << <<"X", "S", "S">>, <<"s", "q", "l">> >>, <<>> }

\* CodebaseScanner._has_critical_security_issues
has_critical_security_issues(file_list, keywords) ==
    \E i \in DOMAIN file_list :
        \/ \E k \in DOMAIN keywords :
              Contains(Lower(file_list[i].risk_reasoning), keywords[k])
        \/ \E c \in DOMAIN file_list[i].changes_made, k \in DOMAIN keywords :
              Contains(Lower(file_list[i].changes_made[c]), keywords[k])

\* risk_counts[level] after the loop
RiskCount(file_list, level) == Cardinality({ i \in DOMAIN file_list : file_list[i].risk_level = level })

\* mutant: >= in place of > for the MEDIUM majority
calculate_overall_risk_AtLeastHalf(file_list) ==
    IF file_list = <<>> THEN LOW
    ELSE IF RiskCount(file_list, HIGH) > 0 THEN HIGH
    ELSE IF 2 * RiskCount(file_list, MEDIUM) >= Len(file_list) THEN MEDIUM
    ELSE LOW

\* CodebaseScanner._calculate_overall_risk; count > len / 2 is 2 * count > len
calculate_overall_risk(file_list) ==
    IF file_list = <<>> THEN LOW
    ELSE IF RiskCount(file_list, HIGH) > 0 THEN HIGH
    ELSE IF 2 * RiskCount(file_list, MEDIUM) > Len(file_list) THEN MEDIUM
    ELSE LOW

\* path.parts[0] if len(path.parts) > 1 else "root"
PackageOf(agg) == IF Len(agg.file_path) > 1 THEN agg.file_path[1] ELSE "root"

\* CodebaseScanner._group_by_package: <<[package, files]>> in the order the
\* packages are first met
RECURSIVE group_by_package(_)
group_by_package(file_list) ==
    IF file_list = <<>> THEN <<>>
    ELSE LET before == group_by_package(SubSeq(file_list, 1, Len(file_list) - 1))
             last == file_list[Len(file_list)]
             package == PackageOf(last) IN
         IF \E i \in DOMAIN before : before[i].package = package
         THEN [i \in DOMAIN before |->
                 IF before[i].package = package
                 THEN [package |-> package, files |-> Append(before[i].files, last)]
                 ELSE before[i]]
         ELSE Append(before, [package |-> package, files |-> <<last>>])

\* sum(len(a.changes_made) for a in analyses)
RECURSIVE SumChanges(_)
SumChanges(file_list) ==
    IF file_list = <<>> THEN 0 ELSE Len(Head(file_list).changes_made) + SumChanges(Tail(file_list))

CodebaseAnalysis(files, overall_risk, total_files, total_changes, summary, packages, has_critical_security) ==
    [files |-> files, overall_risk |-> overall_risk, total_files |-> total_files,
     total_changes |-> total_changes, summary |-> summary, packages |-> packages,
     has_critical_security |-> has_critical_security]

\* mutant: total_files counts the files discovered
ScanAggregate_CountsDiscovered(file_list, keywords) ==
    CodebaseAnalysis(file_list, calculate_overall_risk(file_list), Len(python_files),
                     SumChanges(file_list), "scan", group_by_package(file_list),
                     has_critical_security_issues(file_list, keywords))

\* scan_codebase: the aggregate it returns for the analyses collected
ScanAggregate(file_list, keywords) ==
    CodebaseAnalysis(file_list, calculate_overall_risk(file_list), Len(file_list),
                     SumChanges(file_list), "scan", group_by_package(file_list),
                     has_critical_security_issues(file_list, keywords))

\* mutant: the sub-aggregate takes the risk of the whole scan
PackageAggregate_WholeRisk(whole, group) ==
    CodebaseAnalysis(group.files, whole.overall_risk, Len(group.files),
                     SumChanges(group.files), "package", <<group>>, FALSE)

\* mutant: the sub-aggregate carries the files of the whole scan
PackageAggregate_WholeFiles(whole, group) ==
    CodebaseAnalysis(whole.files, calculate_overall_risk(group.files), Len(group.files),
                     SumChanges(group.files), "package", <<group>>, FALSE)

\* main: the sub-aggregate built for one package group
PackageAggregate(whole, group) ==
    CodebaseAnalysis(group.files, calculate_overall_risk(group.files), Len(group.files),
                     SumChanges(group.files), "package", <<group>>, FALSE)

\* create_github_pr: which branch name and PR title it takes
BranchAndTitle(agg, package_name) ==
    IF package_name # "" THEN "package"
    ELSE IF agg.has_critical_security THEN "security"
    ELSE "default"

\* _generate_commit_message: which title it takes
CommitTitle(agg, package_name) ==
    IF package_name # "" THEN "package"
    ELSE IF agg.has_critical_security THEN "security"
    ELSE "default"

\* _generate_pr_body: which header it takes
BodyHeader(agg, package_name) ==
    IF package_name # "" THEN "package"
    ELSE IF agg.has_critical_security THEN "security"
    ELSE "default"

\* package_name=None
NoPackage == ""

\* a call create_github_pr(agg, package_name) and the framing it produces
PrCall(agg, package_name) ==
    [analysis |-> agg, package_name |-> package_name,
     branch_and_title |-> BranchAndTitle(agg, package_name),
     commit_title |-> CommitTitle(agg, package_name),
     body_header |-> BodyHeader(agg, package_name)]

NoAnalysis == CodebaseAnalysis(<<>>, LOW, 0, 0, "none", <<>>, FALSE)
NoCall == PrCall(NoAnalysis, NoPackage)

\* mutant: the repository identity is resolved before the token is looked at
PrRun_IdentityFirst(cfg, e, identity, url) ==
    LET gate == CASE ~IsEnabled(cfg, "github") -> "not_enabled"
                  [] IsEnabled(cfg, "github") /\ identity = "unresolved" -> "no_repo"
                  [] IsEnabled(cfg, "github") /\ identity # "unresolved" /\ GetEnv(e, GITHUB_TOKEN) = <<>> -> "no_token"
                  [] OTHER -> "mcp" IN
    [gate |-> gate, repo_asked |-> gate # "not_enabled", spawned |-> gate = "mcp",
     ret |-> IF gate = "mcp" /\ url THEN "url" ELSE "none"]

\* create_github_pr: how far a call gets (gate), whether it called
\* _get_repo_info, whether it spawned a backend process, and what it returned;
\* identity is how _get_repo_info ends ("unresolved": it raises), url whether
\* _create_pr_via_mcp comes back with a URL
PrRun(cfg, e, identity, url) ==
    LET gate == CASE ~IsEnabled(cfg, "github") -> "not_enabled"
                  [] IsEnabled(cfg, "github") /\ GetEnv(e, GITHUB_TOKEN) = <<>> -> "no_token"
                  [] IsEnabled(cfg, "github") /\ GetEnv(e, GITHUB_TOKEN) # <<>> /\ identity = "unresolved" -> "no_repo"
                  [] OTHER -> "mcp" IN
    [gate |-> gate, repo_asked |-> gate \in {"no_repo", "mcp"}, spawned |-> gate = "mcp",
     ret |-> IF gate = "mcp" /\ url THEN "url" ELSE "none"]

\* what analyze_file left when it was not the last operation
NoFileResult == [response |-> [raised |-> FALSE, text |-> <<>>], outcome |-> "idle"]

\* main is started: the analyses are the ones the scan of the repository
\* will collect
ScanInit ==
    /\ security_keywords \in KeywordLists
    /\ analyses \in AnalysesLists
    /\ analysis = NoAnalysis
    /\ mpc = "start"
    /\ pr_strategy = "none"
    /\ inputs = <<>>
    /\ applied = <<>>
    /\ prCalls = <<>>
    /\ direct = NoCall
    /\ exit = "none"
    /\ python_files = <<>>
    /\ position = 0
    /\ model_calls = <<>>
    /\ last_file = NoFileResult
    /\ prRuns = <<>>
    /\ remote_url = <<>>
    /\ repo_info = NoRepoInfo

\* os.getenv("ANTHROPIC_API_KEY")
ANTHROPIC_API_KEY == <<"ANTHROPIC_API_KEY">>

\* CodebaseScanner.__init__: the token manager is built and loads the .env
\* file, the missing tokens are reported, and the API key is required; an
\* exception reaches main's handler, which exits with status 1
ScannerInit ==
    /\ mpc = "start" /\ tpc = "idle" /\ exit = "none"
    /\ LET r == LoadFromEnvFile(envFile, env) IN
         /\ env' = r.env
         /\ status' = (IF r.raised THEN status ELSE check_tokens(r.env, config))
         /\ exit' = (IF r.raised \/ GetEnv(r.env, ANTHROPIC_API_KEY) = <<>> THEN "1" ELSE "none")
    /\ tpc' = "ready"
    /\ UNCHANGED <<config, envFile, missing_tokens, queue, tret, lastCmd, tlast, prevEnv, saved, asked, restarts>>
    /\ UNCHANGED <<security_keywords, analyses, analysis, mpc, pr_strategy, inputs, applied, prCalls, direct,
                   python_files, position, model_calls, last_file, prRuns, remote_url, repo_info>>
    /\ UNCHANGED pubVars

\* scan_codebase once analyze_file has been called on every file: from the
\* collected analyses to the aggregate
scan_codebase ==
    /\ mpc = "start" /\ tpc = "ready" /\ exit = "none"
    /\ position = Len(python_files)
    /\ analysis' = ScanAggregate(analyses, security_keywords)
    /\ mpc' = "scanned"
    /\ last_file' = NoFileResult
    /\ UNCHANGED <<security_keywords, analyses, pr_strategy, inputs, applied, prCalls, direct, exit>>
    /\ UNCHANGED <<remote_url, repo_info, python_files, position, model_calls, prRuns>>
    /\ UNCHANGED <<pubVars, tokVars>>

\* input(): what the operator answers; "EOF" is a closed standard input
\* (EOFError, which main's handler turns into exit status 1)
Answers(prompt) ==
    IF prompt = "strategy" THEN {"per-package", "combined", "", "EOF"} ELSE {"y", "n", "EOF"}

\* mutant: the security flag is not looked at before the strategy is asked
AsksStrategy_IgnoresFlag(a) == Len(a.packages) > 1

\* main: the strategy is asked when the flag is not set and there is more than
\* one package; it is "single" otherwise
AsksStrategy(a) == ~a.has_critical_security /\ Len(a.packages) > 1

\* main after the scan: the report, the return when nothing was analyzed, and
\* the choice of the PR strategy
MainStrategy ==
    /\ mpc = "scanned"
    /\ CASE analysis.total_files = 0 ->
              /\ mpc' = "done" /\ exit' = "0"
              /\ UNCHANGED <<pr_strategy, inputs>>
         [] analysis.total_files # 0 /\ AsksStrategy(analysis) ->
              /\ inputs' = Append(inputs, "strategy")
              /\ \E strategy \in Answers("strategy") :
                   IF strategy = "EOF"
                   THEN mpc' = "done" /\ exit' = "1" /\ UNCHANGED pr_strategy
                   ELSE /\ pr_strategy' = (IF strategy = "per-package" THEN "per-package" ELSE "single")
                        /\ mpc' = "confirm" /\ UNCHANGED exit
         [] OTHER ->
              /\ pr_strategy' = "single" /\ mpc' = "confirm"
              /\ UNCHANGED <<inputs, exit>>
    /\ UNCHANGED <<security_keywords, analyses, analysis, applied, prCalls, direct>>
    /\ UNCHANGED <<remote_url, repo_info, python_files, position, model_calls, last_file, prRuns>>
    /\ UNCHANGED <<pubVars, tokVars>>

\* the paths apply_changes has written when its n-th write_text was the last
\* one it made
RECURSIVE PathsOf(_)
PathsOf(files) == IF files = <<>> THEN <<>> ELSE <<Head(files).file_path>> \o PathsOf(Tail(files))

\* mutant: main goes on to publish whatever apply_changes returned
MainConfirm_IgnoresApplyResult ==
    /\ mpc = "confirm"
    /\ inputs' = Append(inputs, "create")
    /\ \E create_pr \in Answers("create") :
         CASE create_pr = "EOF" -> mpc' = "done" /\ exit' = "1" /\ UNCHANGED applied
           [] create_pr = "n" -> mpc' = "done" /\ exit' = "0" /\ UNCHANGED applied
           [] OTHER ->
                \E n \in 0..Len(analysis.files) :
                    /\ applied' = PathsOf(SubSeq(analysis.files, 1, n))
                    /\ mpc' = "publishing" /\ UNCHANGED exit
    /\ UNCHANGED <<security_keywords, analyses, analysis, pr_strategy, prCalls, direct>>
    /\ UNCHANGED <<remote_url, repo_info, python_files, position, model_calls, last_file, prRuns>>
    /\ UNCHANGED <<pubVars, tokVars>>

\* main: the offer to create the PR(s), and apply_changes when accepted; a
\* write_text that fails ends apply_changes with False
MainConfirm ==
    /\ mpc = "confirm"
    /\ inputs' = Append(inputs, "create")
    /\ \E create_pr \in Answers("create") :
         CASE create_pr = "EOF" -> mpc' = "done" /\ exit' = "1" /\ UNCHANGED applied
           [] create_pr = "n" -> mpc' = "done" /\ exit' = "0" /\ UNCHANGED applied
           [] OTHER ->
                \E n \in 0..Len(analysis.files) :
                    /\ applied' = PathsOf(SubSeq(analysis.files, 1, n))
                    /\ IF n = Len(analysis.files)
                       THEN mpc' = "publishing" /\ UNCHANGED exit
                       ELSE mpc' = "done" /\ exit' = "0"
    /\ UNCHANGED <<security_keywords, analyses, analysis, pr_strategy, prCalls, direct>>
    /\ UNCHANGED <<remote_url, repo_info, python_files, position, model_calls, last_file, prRuns>>
    /\ UNCHANGED <<pubVars, tokVars>>

\* main: the next create_github_pr call, one per package group or one for
\* everything; main does not look at what the call returns
MainCreatePr ==
    /\ mpc = "publishing"
    /\ \E identity \in {"resolved", "unresolved"}, url \in BOOLEAN :
         prRuns' = Append(prRuns, PrRun(config, env, identity, url))
    /\ IF pr_strategy = "per-package" /\ Len(analysis.packages) > 1
       THEN LET group == analysis.packages[Len(prCalls) + 1] IN
            /\ prCalls' = Append(prCalls, PrCall(PackageAggregate(analysis, group), group.package))
            /\ IF Len(prCalls) + 1 = Len(analysis.packages)
               THEN mpc' = "done" /\ exit' = "0"
               ELSE UNCHANGED <<mpc, exit>>
       ELSE /\ prCalls' = Append(prCalls, PrCall(analysis, NoPackage))
            /\ mpc' = "done" /\ exit' = "0"
    /\ UNCHANGED <<security_keywords, analyses, analysis, pr_strategy, inputs, applied, direct>>
    /\ UNCHANGED <<remote_url, repo_info, python_files, position, model_calls, last_file>>
    /\ UNCHANGED <<pubVars, tokVars>>

\* another caller of the class: create_github_pr(analysis, package_name) on
\* the aggregate of the scan, with or without a package name
CallCreateGithubPr ==
    /\ mpc = "scanned"
    /\ \E package_name \in {NoPackage} \cup { analysis.packages[i].package : i \in DOMAIN analysis.packages } :
         direct' = PrCall(analysis, package_name)
    /\ mpc' = "called"
    /\ UNCHANGED <<security_keywords, analyses, analysis, pr_strategy, inputs, applied, prCalls, exit>>
    /\ UNCHANGED <<remote_url, repo_info, python_files, position, model_calls, last_file, prRuns>>
    /\ UNCHANGED <<pubVars, tokVars>>

\* what a scanner process starts with: mcp_config.yaml, the caller's
\* environment and the .env file
ReadySetup ==
    [config |-> <<Server("filesystem", TRUE), Server("github", TRUE)>>,
     env |-> SetEnv(SetEnv(NoEnv, ANTHROPIC_API_KEY, OldVal), GITHUB_TOKEN, OldVal),
     envFile |-> NoFile]
ScannerSetups ==
    LET Setup(cfg, e, file) == [config |-> cfg, env |-> e, envFile |-> file]
        KeyEnv == SetEnv(NoEnv, ANTHROPIC_API_KEY, OldVal)
        GithubOn == ReadySetup.config
        GithubOff == <<Server("filesystem", TRUE), Server("github", FALSE)>> IN
    { ReadySetup,
      Setup(GithubOn, KeyEnv, NoFile),
      Setup(GithubOn, SetEnv(KeyEnv, GITHUB_TOKEN, <<>>), HandFile),
      Setup(GithubOff, SetEnv(KeyEnv, GITHUB_TOKEN, OldVal), NoFile),
      Setup(GithubOn, SetEnv(NoEnv, GITHUB_TOKEN, OldVal), NoFile) }

\* no token manager is built yet; the process has one of the given setups
ScannerTok(setups) ==
    /\ \E s \in setups : config = s.config /\ env = s.env /\ envFile = s.envFile
    /\ missing_tokens = <<>>
    /\ tpc = "idle"
    /\ queue = <<>>
    /\ tret = "none"
    /\ lastCmd = [server |-> "none"]
    /\ tlast = "none"
    /\ prevEnv = <<>>
    /\ saved = <<>>
    /\ status = EmptyResult
    /\ asked = <<>>
    /\ restarts = 0

InitScan == ScanInit /\ PubIdle /\ ScannerTok(ScannerSetups)

NextScan ==
    \/ ScannerInit
    \/ scan_codebase
    \/ MainStrategy
    \/ MainConfirm
    \/ MainCreatePr
    \/ CallCreateGithubPr

SpecScan == InitScan /\ [][NextScan]_vars

(***************************************************************************)
(* The scan file by file (scanner.py: analyze_file inside the loop of      *)
(* scan_codebase).  A text is a sequence of pieces: "\n", " ", a tag, a    *)
(* fence marker, a JSON document, or a run of other characters.            *)
(***************************************************************************)
\* len(original_code.strip()) < 50
MinContent == 50

\* a run of 48 characters that are neither blank nor newline; every other
\* piece of a file counts for one character
Body == "def f(): return 1 # ... 48 characters"
TextLen(text) == Len(text) + 47 * Cardinality({ i \in DOMAIN text : text[i] = Body })

\* text.split('\n') and '\n'.join(lines)
RECURSIVE SplitLines(_)
SplitLines(text) ==
    IF \E i \in DOMAIN text : text[i] = "\n"
    THEN LET i == CHOOSE i \in DOMAIN text : text[i] = "\n" /\ \A j \in 1..(i - 1) : text[j] # "\n" IN
         <<SubSeq(text, 1, i - 1)>> \o SplitLines(SubSeq(text, i + 1, Len(text)))
    ELSE <<text>>
RECURSIVE JoinLines(_)
JoinLines(lines) ==
    CASE lines = <<>> -> <<>>
      [] Len(lines) = 1 -> lines[1]
      [] OTHER -> lines[1] \o <<"\n">> \o JoinLines(Tail(lines))

\* re.search(open + r'(.*?)' + close, text, re.DOTALL): the text between the
\* first opening tag and the first closing tag after it
Search(text, open, close) ==
    LET starts == { i \in DOMAIN text : text[i] = open /\ \E j \in (i + 1)..Len(text) : text[j] = close } IN
    IF starts = {} THEN [found |-> FALSE, group |-> <<>>]
    ELSE LET i == CHOOSE i \in starts : \A k \in starts : i <= k
             j == CHOOSE j \in (i + 1)..Len(text) : text[j] = close /\ \A k \in (i + 1)..(j - 1) : text[k] # close IN
         [found |-> TRUE, group |-> SubSeq(text, i + 1, j - 1)]

\* the clean-up before json.loads: with a fence marker (three backquotes,
\* written "[fence]" here) at the start, the first line goes, and the last
\* line too when it is the closing marker
Fences == {"[fence]", "[fence]json"}

\* mutant: no clean-up
StripFence_Never(analysis_json) == analysis_json

StripFence(analysis_json) ==
    IF analysis_json # <<>> /\ analysis_json[1] \in Fences
    THEN LET rest == Tail(SplitLines(analysis_json)) IN
         IF rest # <<>> /\ Strip(rest[Len(rest)]) = <<"[fence]">>
         THEN JoinLines(SubSeq(rest, 1, Len(rest) - 1))
         ELSE JoinLines(rest)
    ELSE analysis_json

\* the JSON documents a response can carry and what json.loads makes of each
Absent == <<"absent">>
JsonDocs ==
    LET JsonObject(changes_made, risk_level, risk_reasoning) ==
            [k |-> "dict", changes_made |-> changes_made, risk_level |-> risk_level,
             risk_reasoning |-> risk_reasoning] IN
    [ JsonLow |-> JsonObject(<<TextDoc>>, "low", TextOk),
      JsonMedium |-> JsonObject(<<TextDoc, TextFixXss>>, "medium", TextOk),
      JsonUpperLow |-> JsonObject(<<TextDoc>>, "LOW", TextOk),
      JsonNoChanges |-> JsonObject(Absent, "low", TextOk),
      JsonList |-> [k |-> "list"] ]

\* json.loads: a document with blanks and newlines around it; anything else
\* raises JSONDecodeError
json_loads(text) ==
    LET doc == Strip(text) IN
    IF Len(doc) = 1 /\ doc[1] \in DOMAIN JsonDocs
    THEN [ok |-> TRUE, value |-> JsonDocs[doc[1]]]
    ELSE [ok |-> FALSE, value |-> [k |-> "none"]]

\* CodebaseScanner._needs_refactoring: every return is True (a SyntaxError of
\* ast.parse, a missing docstring, and the default alike); the handler names
\* SyntaxError only, so the RecursionError ast.parse raises on an expression
\* too long for the construction of the tree (the piece "[chain]") leaves
\* the function.  "true" or "raise"
needs_refactoring(code) ==
    IF \E i \in DOMAIN code : code[i] = "[chain]" THEN "raise" ELSE "true"

\* mutant: lines counted by position
count_lines_changed_ByPosition(original, refactored) ==
    LET o == SplitLines(original)
        r == SplitLines(refactored) IN
    Cardinality({ i \in 1..(IF Len(o) > Len(r) THEN Len(o) ELSE Len(r)) :
                    i > Len(o) \/ i > Len(r) \/ o[i] # r[i] })

\* CodebaseScanner._count_lines_changed
count_lines_changed(original, refactored) ==
    LET original_lines == { SplitLines(original)[i] : i \in DOMAIN SplitLines(original) }
        refactored_lines == { SplitLines(refactored)[i] : i \in DOMAIN SplitLines(refactored) } IN
    Cardinality((original_lines \ refactored_lines) \cup (refactored_lines \ original_lines))

\* mutant: no length test before the model call
CallsModel_NoThreshold(file) == file.readable /\ needs_refactoring(file.content) = "true"

\* analyze_file up to the model call: whether the call is made
CallsModel(file) ==
    /\ file.readable
    /\ TextLen(Strip(file.content)) >= MinContent
    /\ needs_refactoring(file.content) = "true"

\* analyze_file up to the model call: whether an exception leaves it there
RaisesBeforeCall(file) ==
    /\ file.readable
    /\ TextLen(Strip(file.content)) >= MinContent
    /\ needs_refactoring(file.content) = "raise"

\* analyze_file from the model call on: "analysis" with the FileAnalysis,
\* "none" (return None), or "raise" (an exception leaves analyze_file)
ParseResponse(file, reply) ==
    LET code_match == Search(reply.text, "<refactored_code>", "</refactored_code>")
        refactored_code == Strip(code_match.group)
        analysis_match == Search(reply.text, "<analysis>", "</analysis>")
        result == json_loads(StripFence(Strip(analysis_match.group)))
        none == [outcome |-> "none", analysis |-> <<>>]
        raise == [outcome |-> "raise", analysis |-> <<>>] IN
    CASE reply.raised -> raise
      [] ~reply.raised /\ ~code_match.found -> none
      [] ~reply.raised /\ code_match.found /\ ~analysis_match.found -> none
      [] ~reply.raised /\ code_match.found /\ analysis_match.found /\ ~result.ok -> none
      [] OTHER ->
           \* result['refactored_code'] = ...: TypeError unless it is an object;
           \* result['changes_made']: KeyError; RiskLevel(...): ValueError
           IF result.value.k # "dict" \/ result.value.changes_made = Absent
              \/ result.value.risk_level \notin {LOW, MEDIUM, HIGH}
           THEN raise
           ELSE [outcome |-> "analysis",
                 analysis |-> FileAnalysis(file.path, result.value.changes_made, result.value.risk_level,
                                           result.value.risk_reasoning)
                              @@ [original_code |-> file.content, refactored_code |-> refactored_code,
                                  lines_changed |-> count_lines_changed(file.content, refactored_code)]]

\* file contents
Code ==
    [ abc |-> <<Body, "\n", "a", "\n", "b", "\n", "c">>,
      abd |-> <<Body, "\n", "a", "\n", "b", "\n", "d">>,
      newline |-> <<Body, "\n", "a", "\n">>,
      short |-> <<Body, "a">>,
      chain |-> <<Body, "\n", "[chain]">> ]

\* the files of a repository: the path relative to the repository, whether
\* read_text succeeds, and the content
PythonFiles ==
    LET File(path, readable, content) == [path |-> path, readable |-> readable, content |-> content] IN
    { File(<<"api", "a.py">>, TRUE, Code.abc),
      File(<<"root", "r.py">>, TRUE, Code.newline),
      File(<<"d.py">>, TRUE, Code.abc),
      File(<<"api", "e.py">>, TRUE, Code.short),
      File(<<"api", "u.py">>, FALSE, <<>>),
      File(<<"gen.py">>, TRUE, Code.chain) }

\* what messages.create can do: raise, or return a text
Replies ==
    LET Reply(text) == [raised |-> FALSE, text |-> text]
        CodeBlock(code) == <<"<refactored_code>", "\n">> \o code \o <<"\n", "</refactored_code>", "\n">>
        AnalysisBlock(body) == <<"<analysis>", "\n">> \o body \o <<"\n", "</analysis>">>
        Verbatim(code) == <<"<refactored_code>">> \o code \o <<"</refactored_code>", "\n">> IN
    { Reply(CodeBlock(Code.abd) \o AnalysisBlock(<<"JsonLow">>)),
      Reply(Verbatim(Code.abc) \o AnalysisBlock(<<"JsonLow">>)),
      Reply(Verbatim(Code.newline) \o AnalysisBlock(<<"JsonLow">>)),
      Reply(CodeBlock(Code.newline) \o AnalysisBlock(<<"[fence]json", "\n", "JsonMedium", "\n", "[fence]">>)),
      Reply(AnalysisBlock(<<"JsonLow">>)),
      Reply(CodeBlock(Code.abd)),
      Reply(CodeBlock(Code.abd) \o AnalysisBlock(<<"JsonLow", "JsonLow">>)),
      Reply(CodeBlock(Code.abd) \o AnalysisBlock(<<"[fence]", "\n", "{", "\n", "[fence]">>)),
      Reply(CodeBlock(Code.abd) \o AnalysisBlock(<<"JsonLow", "\n", "[fence]">>)),
      Reply(CodeBlock(Code.abd) \o AnalysisBlock(<<"JsonList">>)),
      Reply(CodeBlock(Code.abd) \o AnalysisBlock(<<"JsonNoChanges">>)),
      Reply(CodeBlock(Code.abd) \o AnalysisBlock(<<"JsonUpperLow">>)),
      [raised |-> TRUE, text |-> <<>>] }

\* mutant: the newest result goes to the front of the list
Collected_Prepends(file_list, r) ==
    CASE r.outcome = "analysis" -> <<r.analysis>> \o file_list
      [] r.outcome = "raise" -> <<>>
      [] OTHER -> file_list

\* mutant: the list survives the exception
Collected_KeptOnRaise(file_list, r) ==
    IF r.outcome = "analysis" THEN Append(file_list, r.analysis) ELSE file_list

\* the list `analyses` of scan_codebase after an analyze_file call: the
\* result is appended; an exception leaves scan_codebase and the list is lost
Collected(file_list, r) ==
    CASE r.outcome = "analysis" -> Append(file_list, r.analysis)
      [] r.outcome = "raise" -> <<>>
      [] OTHER -> file_list

\* one turn of the loop of scan_codebase: analyze_file on the next file; an
\* exception reaches main's handler, which exits with status 1
analyze_file ==
    /\ mpc = "start" /\ tpc = "ready" /\ exit = "none"
    /\ position < Len(python_files)
    /\ LET file == python_files[position + 1] IN
       IF CallsModel(file)
       THEN /\ model_calls' = Append(model_calls, position + 1)
            /\ \E reply \in Replies :
                 LET r == ParseResponse(file, reply) IN
                 /\ last_file' = [response |-> reply, outcome |-> r.outcome]
                 /\ analyses' = Collected(analyses, r)
                 /\ exit' = (IF r.outcome = "raise" THEN "1" ELSE "none")
       ELSE LET r == [outcome |-> IF RaisesBeforeCall(file) THEN "raise" ELSE "none", analysis |-> <<>>] IN
            /\ last_file' = [response |-> [raised |-> FALSE, text |-> <<>>], outcome |-> r.outcome]
            /\ analyses' = Collected(analyses, r)
            /\ exit' = (IF r.outcome = "raise" THEN "1" ELSE "none")
            /\ UNCHANGED model_calls
    /\ position' = position + 1
    /\ UNCHANGED <<security_keywords, analysis, mpc, pr_strategy, inputs, applied, prCalls, direct,
                   python_files, prRuns, remote_url, repo_info>>
    /\ UNCHANGED <<pubVars, tokVars>>

\* main is started on a repository: find_python_files will return some of
\* the files, none twice
InitAnalyze ==
    /\ security_keywords = << <<"x", "s", "s">> >>
    /\ analyses = <<>>
    /\ analysis = NoAnalysis
    /\ mpc = "start"
    /\ pr_strategy = "none"
    /\ inputs = <<>>
    /\ applied = <<>>
    /\ prCalls = <<>>
    /\ direct = NoCall
    /\ exit = "none"
    /\ python_files \in { q \in ListsOf(PythonFiles, MaxFiles) : \A i, j \in DOMAIN q : q[i] = q[j] => i = j }
    /\ position = 0
    /\ model_calls = <<>>
    /\ last_file = NoFileResult
    /\ prRuns = <<>>
    /\ remote_url = <<>>
    /\ repo_info = NoRepoInfo
    /\ PubIdle
    /\ ScannerTok({ReadySetup})

NextAnalyze ==
    \/ ScannerInit
    \/ analyze_file
    \/ scan_codebase
    \/ MainStrategy
    \/ MainConfirm
    \/ MainCreatePr

SpecAnalyze == InitAnalyze /\ [][NextAnalyze]_vars

(***************************************************************************)
(* The repository identity: CodebaseScanner._get_repo_info and             *)
(* MCPGitHubPRCreator.get_repo_info                                        *)
(*                                                                         *)
(* A remote is a sequence of pieces: "https://", "git@", "github.com/",    *)
(* "github.com:", "/", ".git", " ", "\n" and pieces of names.  The pieces  *)
(* of names are chosen so that the substrings the code searches for        *)
(* ("github.com/", "github.com:", ".git", "/") occur as whole pieces only. *)
(***************************************************************************)

\* str.split(sep): the stretches of text between the occurrences of sep
RECURSIVE SplitOn(_, _)
SplitOn(text, sep) ==
    IF \E i \in DOMAIN text : text[i] = sep
    THEN LET first == CHOOSE i \in DOMAIN text : text[i] = sep /\ \A j \in 1..(i - 1) : text[j] # sep IN
         <<SubSeq(text, 1, first - 1)>> \o SplitOn(SubSeq(text, first + 1, Len(text)), sep)
    ELSE <<text>>

\* the parsing both classes share: the text after the host, every ".git"
\* replaced by nothing, cut at the first "/"; the scanner strips the text
\* once more after the replacement.  A remote of another host, and a text
\* without "/", raise inside the try block
ParseRemote(url, strip_parts) ==
    LET text == Strip(url)
        host == IF \E i \in DOMAIN text : text[i] = "github.com/" THEN "github.com/" ELSE "github.com:"
        after == SplitOn(text, host)[2]
        replaced == SelectSeq(after, LAMBDA piece : piece # ".git")
        parts == IF strip_parts THEN Strip(replaced) ELSE replaced
        halves == SplitOn(parts, "/")
        rest == SubSeq(parts, Len(halves[1]) + 2, Len(parts)) IN
    IF (\A i \in DOMAIN text : text[i] \notin {"github.com/", "github.com:"}) \/ Len(halves) < 2
    THEN [raised |-> TRUE, owner |-> <<>>, repo |-> <<>>]
    ELSE [raised |-> FALSE, owner |-> halves[1], repo |-> rest]

\* CodebaseScanner._get_repo_info on the text `url = ...` of .git/config
\* gives (the empty text when there is no such file or no such line), up to
\* the point where it falls back to the prompts
Scanner_get_repo_info(git_config_url) == ParseRemote(git_config_url, TRUE)

\* MCPGitHubPRCreator.get_repo_info on what `git remote get-url origin`
\* printed (the empty text when git failed)
Creator_get_repo_info(stdout) == ParseRemote(stdout, FALSE)

\* one of the two classes looks the identity up
GetRepoInfo ==
    /\ repo_info.by = "none"
    /\ \E by \in {"scanner", "creator"} :
         repo_info' = [by |-> by] @@
                      (IF by = "scanner" THEN Scanner_get_repo_info(remote_url)
                                         ELSE Creator_get_repo_info(remote_url))
    /\ UNCHANGED <<security_keywords, analyses, analysis, mpc, pr_strategy, inputs, applied, prCalls, direct,
                   exit, python_files, position, model_calls, last_file, prRuns, remote_url>>
    /\ UNCHANGED <<pubVars, tokVars>>

\* a repository with an origin remote in either syntax, with and without
\* the ".git" suffix, as the file or git gives it (a line end after it); a
\* remote of another host; a remote without a repository; no remote at all
InitRepo ==
    LET Owners == { <<"o">>, <<"my", ".git", "hub">> }
        Repos == { <<"r">>, <<"site", ".git", "hub.io">>, <<"x", ".git", "ignore">> }
        Hosts == { <<"https://", "github.com/">>, <<"git@", "github.com:">> }
        RemoteUrls == { host \o owner \o <<"/">> \o name \o suffix \o line_end :
                          host \in Hosts, owner \in Owners, name \in Repos,
                          suffix \in {<<>>, <<".git">>}, line_end \in {<<>>, <<"\n">>} }
                      \cup { <<"https://", "gitlab.com/", "o", "/", "r", ".git">>,
                             <<"https://", "github.com/", "o">>, <<>> } IN
    /\ security_keywords = <<>>
    /\ analyses = <<>>
    /\ analysis = <<>>
    /\ mpc = "idle"
    /\ pr_strategy = "none"
    /\ inputs = <<>>
    /\ applied = <<>>
    /\ prCalls = <<>>
    /\ direct = <<>>
    /\ exit = "none"
    /\ python_files = <<>>
    /\ position = 0
    /\ model_calls = <<>>
    /\ last_file = <<>>
    /\ prRuns = <<>>
    /\ remote_url \in RemoteUrls
    /\ repo_info = NoRepoInfo
    /\ PubIdle
    /\ TokIdle

NextRepo == GetRepoInfo

SpecRepo == InitRepo /\ [][NextRepo]_vars

(***************************************************************************)
(* Claims about the publish workflows                                      *)
(***************************************************************************)
Range(q) == { q[i] : i \in DOMAIN q }
Count(q, x) == Cardinality({ i \in DOMAIN q : q[i] = x })
GitCount(cmd) == Cardinality({ i \in DOMAIN gits : gits[i].cmd = cmd })

\* how a backend process ended, in the words of the claims
NoResponse(o) == o.kind \in {"launch_fail", "timeout"} \/ (o.kind = "exit" /\ o.rc # 0)
Malformed(o) == o.kind = "exit" /\ o.rc = 0 /\ o.out.k = "garbage"
Parsed(o) == o.kind = "exit" /\ o.rc = 0 /\ o.out.k # "garbage"
HasErrorField(o) == Parsed(o) /\ o.out.k = "dict" /\ o.out.error # "absent"
FailedCall(o) == NoResponse(o) \/ Malformed(o) \/ HasErrorField(o)

\* C1: in CodebaseScanner._create_pr_via_mcp at most two tool calls are made,
\* both to 'github', push_files then create_pull_request; create_pull_request
\* is issued only after a well-formed (parsed) push_files response without an
\* 'error' field; a missing, malformed or error response of either call ends
\* the workflow with no URL and no further call.
C1_PushThenCreatePr ==
    prog = "scanner" =>
      /\ Len(calls) <= 2
      /\ \A i \in DOMAIN calls : calls[i] = (IF i = 1 THEN GithubPush ELSE GithubPr)
      /\ (GithubPr \in Range(calls) => Parsed(pushOut) /\ ~HasErrorField(pushOut))
      /\ (FailedCall(pushOut) =>
            Len(calls) = 1 /\ pc = "done" /\ mcpRet.kind # "url" /\ ret = RNone)
      /\ (FailedCall(prOut) =>
            Len(calls) = 2 /\ pc = "done" /\ mcpRet.kind # "url" /\ ret = RNone)

\* C1 witness: the push_files response carried an 'error' field and the
\* workflow ended after that one call
C1_Witness ==
    /\ prog = "scanner" /\ pc = "done"
    /\ HasErrorField(pushOut)
    /\ calls = <<GithubPush>>

\* C2 as stated: in create_pr_workflow, once the push_files response carried
\* an 'error' field the create_pull_request tool call is never attempted.
C2_NoPrAfterPushError ==
    (prog = "creator" /\ HasErrorField(pushOut)) => GithubPr \notin Range(calls)

\* C2 amended: after a push_files response with an 'error' field the
\* create_pull_request tool call is attempted only if the direct `git push`
\* of the fallback succeeded.
C2_PrAfterPushErrorOnlyByFallback ==
    (prog = "creator" /\ HasErrorField(pushOut) /\ GithubPr \in Range(calls)) =>
        /\ Git("push", "ok") \in Range(gits)
        /\ pushed = "true"

\* C2 witness: the push_files response carried 'error', the fallback push
\* succeeded and create_pull_request was called
C2_Witness ==
    /\ prog = "creator"
    /\ HasErrorField(pushOut)
    /\ Git("push", "ok") \in Range(gits)
    /\ calls = <<GithubPush, GithubPr>>

\* C3: in push_branch a failed push_files tool call (or a failure to resolve
\* the repository) is never repeated; exactly one direct `git push` is issued
\* instead, and push_branch returns success iff the tool call succeeded or
\* that direct push succeeded.
C3_PushBranchFallback ==
    (prog = "creator" /\ pushed # "pending") =>
        LET toolOk == Parsed(pushOut) /\ pushOut.out.k = "dict" /\ ~HasErrorField(pushOut) IN
        /\ Count(calls, GithubPush) <= 1
        /\ (toolOk => GitCount("push") = 0)
        /\ (~toolOk => GitCount("push") = 1)
        /\ (pushed = "true" <=> (toolOk \/ Git("push", "ok") \in Range(gits)))

\* C3 witness: the tool call failed on a malformed response, the fallback
\* push failed too, and push_branch returned failure
C3_Witness ==
    /\ prog = "creator"
    /\ Malformed(pushOut)
    /\ Git("push", "fail") \in Range(gits)
    /\ pushed = "false"

\* C4 as stated: in the scanner's publish workflow a failed push_files call
\* is followed by the direct commands create branch, stage, commit, push.
C4_ScannerFallsBackToGit ==
    (prog = "scanner" /\ pc = "done" /\ FailedCall(pushOut)) =>
        \A c \in {"checkout", "add", "commit", "push"} : GitCount(c) >= 1

\* C5: CodebaseScanner._run_mcp_tool spawns the backend once per call and
\* never raises; launch failure, non-zero exit, timeout and unparsable
\* output give None, and a response is handed back only for exit status 0
\* with parsed output (and is that output).
C5_Call(o, r) ==
    /\ r.kind \in {"pending", "return"}
    /\ (r.kind = "pending" <=> o = Pending)
    /\ (r.kind = "return" /\ (NoResponse(o) \/ Malformed(o)) => r.v = NoneV)
    /\ (r.kind = "return" /\ r.v # NoneV => Parsed(o) /\ r.v = o.out)

C5_RunMcpToolNeverRaises ==
    prog = "scanner" =>
      /\ C5_Call(pushOut, pushResp)
      /\ C5_Call(prOut, prResp)
      /\ Len(calls) = (IF pushResp.kind = "return" THEN 1 ELSE 0)
                       + (IF prResp.kind = "return" THEN 1 ELSE 0)
                       + (IF proc.state = "running" THEN 1 ELSE 0)

\* C5 witness: a non-zero exit with otherwise valid output gave None
C5_Witness ==
    /\ prog = "scanner"
    /\ pushOut.kind = "exit" /\ pushOut.rc # 0 /\ pushOut.out.k = "dict"
    /\ pushResp = Returned(NoneV)

\* C6 as stated: every tool invocation eventually returns to its caller, even
\* when the backend process never produces a response: while a backend
\* process is in flight, the workflow can always take its next step.
C6_ToolCallReturns ==
    proc.state = "running" => ENABLED Next

\* the pull-request URL a payload carries (html_url before url)
PayloadUrl(v) ==
    CASE v.k # "dict" \/ v.result # "obj" -> RNone
      [] v.html_url \notin {"absent", ""} -> RUrl(v.html_url)
      [] v.url \notin {"absent", ""} -> RUrl(v.url)
      [] OTHER -> RNone

\* C7: a parsed response with an 'error' field is a failed call and yields
\* neither payload nor URL; otherwise the payload the caller uses is the
\* value of its 'result' field (empty when absent).  Both workflows.
C7_ErrorOrResultPayload ==
    /\ (HasErrorField(pushOut) =>
          /\ prog = "scanner" => (pc = "done" /\ ret = RNone)
          /\ prog = "creator" => pushResp = Raised)
    /\ (HasErrorField(prOut) =>
          /\ pc = "done" /\ ret = RNone
          /\ prog = "creator" => prResp = Raised)
    /\ (Parsed(prOut) /\ ~HasErrorField(prOut) =>
          /\ pc = "done" /\ ret = PayloadUrl(prOut.out)
          /\ (prog = "creator" /\ prOut.out.k = "dict") => prResp = Returned(prOut.out))
    /\ (prog = "creator" /\ Parsed(pushOut) /\ ~HasErrorField(pushOut) /\ pushOut.out.k = "dict" =>
          pushResp = Returned(pushOut.out) /\ pushed = "true")

\* C7 witness: a create_pull_request response without 'error' whose result
\* carries an empty html_url and a url, which is the URL returned
C7_Witness ==
    /\ pc = "done"
    /\ Parsed(prOut) /\ prOut.out.k = "dict" /\ prOut.out.error = "absent"
    /\ prOut.out.html_url = "" /\ prOut.out.url = ApiUrl
    /\ ret = RUrl(ApiUrl)

(***************************************************************************)
(* Claims about the credential manager                                     *)
(***************************************************************************)
\* the variables of the enabled servers of the catalog other than `server`
OtherVars(cfg, server) ==
    { v \in {GITHUB_TOKEN, SLACK_BOT_TOKEN, SLACK_TEAM_ID} :
        \E x \in DOMAIN MCP_CATALOG :
            /\ x # server /\ IsEnabled(cfg, x)
            /\ \E i \in DOMAIN MCP_CATALOG[x].env_var : MCP_CATALOG[x].env_var[i] = v }

\* other values a credential could have had
OtherVals == {OldVal, <<"a">>}

\* C8: the command built for a call to the github server depends only on the
\* github credential: with any credential of another enabled server set to a
\* different value, _run_mcp_tool would have built the same command.
C8_CommandOnlyOwnCredentials ==
    tlast = "cmd" =>
        \A k \in OtherVars(config, lastCmd.server) \cap DOMAIN env :
            \A v \in OtherVals :
                DockerCmd(SetEnv(env, k, v), config, lastCmd.server) = lastCmd.cmd

\* the keys of the lines of the .env file that the readers accept
FileKeys == { kv.key : kv \in Range(ParsedLines(FileLines(envFile.lines))) }

\* C9: right after load_from_env_file, every variable that was set before the
\* load and has a line in the .env file still has the value it had before.
C9_LoadKeepsLiveEnv ==
    tlast = "load" =>
        \A k \in (DOMAIN prevEnv) \cap FileKeys : GetEnv(env, k) = prevEnv[k]

\* C10: after _save_to_env_file has written the accepted tokens and a later
\* process, started with none of them set, has run load_from_env_file, every
\* saved variable has exactly the saved value.
C10_SaveLoadRoundTrip ==
    (/\ tlast = "load"
     /\ saved # <<>>
     /\ \A i \in DOMAIN saved : saved[i].key \notin DOMAIN prevEnv)
    => \A i \in DOMAIN saved : GetEnv(env, saved[i].key) = saved[i].value

\* the key, value pairs the readers find in a file, line by line, and the
\* pairs a reader resolves them to (the last line of a key wins)
PairsIn(file) == IF file.exists THEN ParsedLines(FileLines(file.lines)) ELSE <<>>
ResolvedIn(file) == DictUpdate(<<>>, PairsIn(file))
Keys(d) == { d[i].key : i \in DOMAIN d }

\* C11: a save is read-merge-write: every pair of the file before the save
\* whose key was not accepted in this session is a pair of the file after it,
\* every accepted key is in the file after it with its new value, and no key
\* is on more than one line of the file after it.
C11_SaveIsReadMergeWrite ==
    [][ (tpc = "prompting" /\ tlast' = "save") =>
          /\ \A kv \in Range(ResolvedIn(envFile)) :
                kv.key \notin Keys(missing_tokens) => kv \in Range(PairsIn(envFile'))
          /\ \A kv \in Range(missing_tokens) : kv \in Range(PairsIn(envFile'))
          /\ \A k \in Keys(PairsIn(envFile')) : Count([i \in DOMAIN PairsIn(envFile') |-> PairsIn(envFile')[i].key], k) = 1
      ]_vars

\* the enabled servers of the catalog, and whether a variable resolves
KnownEnabled(cfg) == { x \in DOMAIN MCP_CATALOG : IsEnabled(cfg, x) }
Resolves(e, v) == v \in DOMAIN e /\ e[v] # <<>>
NoRepeat(q) == Cardinality(Range(q)) = Len(q)

\* the three partitions of the enabled servers under environment e
IsPartition(st, e, cfg) ==
    /\ NoRepeat(st.missing) /\ NoRepeat(st.present) /\ NoRepeat(st.not_needed)
    /\ Range(st.not_needed) = { x \in KnownEnabled(cfg) : ~MCP_CATALOG[x].requires_auth }
    /\ Range(st.present) =
          { x \in KnownEnabled(cfg) :
              /\ MCP_CATALOG[x].requires_auth
              /\ \A v \in Range(MCP_CATALOG[x].env_var) : Resolves(e, v) }
    /\ Range(st.missing) =
          { x \in KnownEnabled(cfg) :
              /\ MCP_CATALOG[x].requires_auth
              /\ \E v \in Range(MCP_CATALOG[x].env_var) : ~Resolves(e, v) }

\* C12: a call of check_tokens returns the partitions that the environment,
\* the enabled servers and the catalog determine, returns the same again when
\* called twice in a row, and changes neither the environment, the .env file
\* nor missing_tokens.
C12_CheckTokensPure ==
    [][ tlast' = "check" =>
          /\ IsPartition(status', env, config)
          /\ (tlast = "check" => status' = status)
          /\ env' = env /\ envFile' = envFile /\ missing_tokens' = missing_tokens
      ]_vars

\* C12 witness: check_tokens has returned with one server in each partition
\* (a further call can follow it at once)
C12_Witness ==
    /\ tlast = "check" /\ tpc = "ready"
    /\ status.missing = <<"slack">> /\ status.present = <<"github">>
    /\ status.not_needed = <<"filesystem">>

\* no enabled server of the catalog that requires auth lacks a variable
NoneMissing(e, cfg) ==
    \A x \in KnownEnabled(cfg) :
        MCP_CATALOG[x].requires_auth => \A v \in Range(MCP_CATALOG[x].env_var) : Resolves(e, v)

\* C13: validate_setup returns true iff no server is missing in the
\* environment of the call; prompt_for_tokens returns true iff no server is
\* missing in the environment as it is once the values entered are applied.
C13_ReadinessNotStale ==
    /\ tlast = "validate" => (tret = "true" <=> NoneMissing(env, config))
    /\ (tlast \in {"prompt", "report", "save", "nosave"} /\ tpc = "ready") =>
          (tret = "true" <=> NoneMissing(env, config))

\* C13 witness: prompt_for_tokens started with a server missing and returned
\* true after the values entered
C13_Witness ==
    /\ tlast \in {"save", "nosave"} /\ tpc = "ready"
    /\ ~NoneMissing(prevEnv, config)
    /\ tret = "true"

\* C14: prompt_for_tokens(interactive=False) returns without soliciting
\* anything, leaves the environment, the .env file and missing_tokens as they
\* were, and returns false iff a server is missing.
C14_NonInteractiveOnlyReports ==
    [][ tlast' = "report" =>
          /\ tpc' = "ready" /\ queue' = <<>> /\ asked' = <<>>
          /\ env' = env /\ envFile' = envFile /\ missing_tokens' = missing_tokens
          /\ tret' \in {"true", "false"}
          /\ (tret' = "false" <=> ~NoneMissing(env, config))
      ]_vars

\* C14 witness: a non-interactive call has returned false
C14_Witness == tlast = "report" /\ tpc = "ready" /\ tret = "false" /\ ~NoneMissing(env, config)

\* the variables of the enabled auth servers that do not resolve under e
MissingVars(e, cfg) ==
    { v \in UNION { Range(MCP_CATALOG[x].env_var) : x \in KnownEnabled(cfg) } : ~Resolves(e, v) }

RisksOf(fs) == [i \in DOMAIN fs |-> fs[i].risk_level]
HowMany(risks, level) == Cardinality({ i \in DOMAIN risks : risks[i] = level })

\* the aggregation rule, on a list of risk levels
RiskRule(risks) ==
    IF \E i \in DOMAIN risks : risks[i] = HIGH THEN HIGH
    ELSE IF 2 * HowMany(risks, MEDIUM) > Len(risks) THEN MEDIUM
    ELSE LOW

\* the lists that hold the same files as fs in some order
Reorderings(fs) == { q \in AnalysesLists : Len(q) = Len(fs) /\ Range(q) = Range(fs) }

\* C16: the overall risk scan_codebase got from _calculate_overall_risk is
\* HIGH if a file is HIGH, else MEDIUM iff more than half of the files are
\* MEDIUM, else LOW (LOW for no file), and is the same for every order of the
\* files.
C16_OverallRiskRule ==
    mpc \notin {"idle", "start"} =>
        /\ analysis.overall_risk = RiskRule(RisksOf(analyses))
        /\ (analyses = <<>> => analysis.overall_risk = LOW)
        /\ \A q \in Reorderings(analyses) : calculate_overall_risk(q) = analysis.overall_risk

\* C16 witness: two MEDIUM files and a LOW one give MEDIUM
C16_Witness ==
    /\ mpc = "scanned"
    /\ Len(analyses) = 3
    /\ HowMany(RisksOf(analyses), MEDIUM) = 2 /\ HowMany(RisksOf(analyses), LOW) = 1
    /\ analysis.overall_risk = MEDIUM

\* the changes of a list of files, one pair per change
ChangesOf(fs) == UNION { { <<i, j>> : j \in DOMAIN fs[i].changes_made } : i \in DOMAIN fs }

\* the counts and the risk of an aggregate are those of its own files
Consistent(a) ==
    /\ a.total_files = Len(a.files)
    /\ a.total_changes = Cardinality(ChangesOf(a.files))
    /\ a.overall_risk = RiskRule(RisksOf(a.files))

\* C17: the aggregate of the scan and every per-package aggregate main builds
\* have total_files, total_changes and overall_risk computed from their own
\* files.
C17_AggregatesConsistent ==
    /\ mpc \notin {"idle", "start"} => Consistent(analysis)
    /\ \A i \in DOMAIN prCalls : Consistent(prCalls[i].analysis)

\* C17 witness: a per-package aggregate whose risk is not that of the scan
C17_Witness ==
    \E i \in DOMAIN prCalls :
        /\ prCalls[i].package_name # NoPackage
        /\ prCalls[i].analysis.overall_risk # analysis.overall_risk
        /\ prCalls[i].analysis.total_files < analysis.total_files

\* the justification and the change descriptions of a file
TextsOf(f) == {f.risk_reasoning} \cup Range(f.changes_made)

C19_SecurityOverridesStrategy ==
    (mpc \notin {"idle", "start"} /\ analysis.has_critical_security) =>
        /\ \A i \in DOMAIN inputs : inputs[i] # "strategy"
        /\ pr_strategy \in {"none", "single"}
        /\ Len(prCalls) <= 1
        /\ \A i \in DOMAIN prCalls :
              /\ prCalls[i].analysis = analysis
              /\ prCalls[i].analysis.files = analyses
              /\ prCalls[i].package_name = NoPackage
              /\ prCalls[i].branch_and_title = "security"

\* C19 witness: files of two packages, the flag set, and the one call made
C19_Witness ==
    /\ mpc = "done"
    /\ analysis.has_critical_security
    /\ Len(analysis.packages) > 1
    /\ Len(prCalls) = 1

\* the create_github_pr calls made, by main or by another caller
CallsMade == Range(prCalls) \cup (IF mpc = "called" THEN {direct} ELSE {})

\* C20: every create_github_pr call on an aggregate with the security flag set
\* takes the security branch and title, the security commit title and the
\* security body header, with or without a package name.
C20_SecurityFramingSupersedes ==
    \A call \in CallsMade :
        call.analysis.has_critical_security =>
            /\ call.branch_and_title = "security"
            /\ call.commit_title = "security"
            /\ call.body_header = "security"

(***************************************************************************)
(* Claims about the scan file by file (SpecAnalyze)                        *)
(***************************************************************************)
\* the last operation was an analyze_file call that called the model and got
\* a text back
GotText == last_file.outcome # "idle" /\ ~last_file.response.raised /\ last_file.response.text # <<>>

\* the body of a block of the text, and whether the block is there
BlockOf(tag) == Search(last_file.response.text, "<" \o tag \o ">", "</" \o tag \o ">")

\* a text without a leading fence line and without a trailing fence line
Bare(body) ==
    LET lines == SplitLines(Strip(body))
        head == IF lines # <<>> /\ lines[1] # <<>> /\ lines[1][1] \in Fences THEN Tail(lines) ELSE lines
        core == IF head # <<>> /\ Strip(head[Len(head)]) = <<"[fence]">>
                THEN SubSeq(head, 1, Len(head) - 1) ELSE head IN
    JoinLines(core)

\* the JSON value of the analysis block, fences aside
Decoded == json_loads(Bare(BlockOf("analysis").group))

\* C21: a response with both tags and valid JSON whose risk_level is not one
\* of "low", "medium", "high" makes analyze_file return no result, without
\* raising: the file is skipped.
C21_BadRiskLiteralSkipped ==
    ( /\ GotText /\ BlockOf("refactored_code").found /\ BlockOf("analysis").found
      /\ Decoded.ok /\ Decoded.value.k = "dict" /\ Decoded.value.changes_made # Absent
      /\ Decoded.value.risk_level \notin {"low", "medium", "high"} ) =>
        last_file.outcome = "none" /\ exit = "none"

\* C22: a response without the <refactored_code> block, without the <analysis>
\* block, or whose <analysis> body is not JSON even with a leading and a
\* trailing fence line taken off, makes analyze_file return no result; a body
\* that is valid JSON between a leading and a trailing fence line is accepted.
C22_UnusableResponseSkipped ==
    /\ ( GotText /\ ( \/ ~BlockOf("refactored_code").found
                      \/ ~BlockOf("analysis").found
                      \/ ~Decoded.ok ) ) =>
           last_file.outcome = "none" /\ exit = "none"
    /\ ( /\ GotText /\ BlockOf("refactored_code").found /\ BlockOf("analysis").found
         /\ \E doc \in DOMAIN JsonDocs :
               /\ Strip(BlockOf("analysis").group) \in
                     { <<f, "\n", doc, "\n", "[fence]">> : f \in Fences }
               /\ JsonDocs[doc].k = "dict" /\ JsonDocs[doc].changes_made # Absent
               /\ JsonDocs[doc].risk_level \in {"low", "medium", "high"} ) =>
           last_file.outcome = "analysis"

\* C22 witness: a fenced body was accepted
C22_Witness ==
    /\ GotText /\ BlockOf("analysis").found
    /\ Strip(BlockOf("analysis").group)[1] \in Fences
    /\ last_file.outcome = "analysis"
    /\ Len(analyses) = 2

\* a response that meets the tag and JSON contract: both blocks, and in the
\* analysis block a JSON object with the required fields and a known risk
\* literal, bare or between an opening and a closing fence line
WellFormed ==
    LET body == Strip(BlockOf("analysis").group)
        lines == SplitLines(body)
        fenced == /\ Len(lines) >= 2 /\ lines[1] # <<>> /\ lines[1][1] \in Fences
                  /\ Strip(lines[Len(lines)]) = <<"[fence]">>
        doc == json_loads(IF fenced THEN JoinLines(SubSeq(lines, 2, Len(lines) - 1)) ELSE body) IN
    /\ BlockOf("refactored_code").found /\ BlockOf("analysis").found
    /\ doc.ok /\ doc.value.k = "dict" /\ doc.value.changes_made # Absent
    /\ doc.value.risk_level \in {"low", "medium", "high"}

\* C23: a malformed response for one file never stops the scan: whatever the
\* responses (well-formed, tags missing, malformed JSON, JSON that is no
\* object, a required field missing, an unknown risk literal), scan_codebase
\* analyzes every discovered file, and a file is in the aggregate exactly when
\* its response was well-formed.
C23_MalformedNeverStopsScan ==
    /\ (GotText /\ ~WellFormed) => (last_file.outcome = "none" /\ exit = "none")
    /\ (GotText /\ WellFormed) =>
          /\ last_file.outcome = "analysis"
          /\ analyses # <<>> /\ analyses[Len(analyses)].file_path = python_files[position].path
    /\ mpc \notin {"idle", "start"} => (position = Len(python_files) /\ analysis.files = analyses)

\* the positions of the files whose content is shorter than the threshold
ShortFiles == { p \in DOMAIN python_files :
                  python_files[p].readable /\ TextLen(python_files[p].content) < MinContent }

\* C24: a file whose content is shorter than 50 characters makes analyze_file
\* return no result without a model call, and no file gets more than one
\* model call.
C24_ShortFilesSkipped ==
    /\ \A i \in DOMAIN model_calls : model_calls[i] \notin ShortFiles
    /\ (last_file.outcome # "idle" /\ position \in ShortFiles) =>
          (last_file.outcome = "none" /\ exit = "none")
    /\ \A i, j \in DOMAIN model_calls : model_calls[i] = model_calls[j] => i = j
    /\ \A i \in DOMAIN model_calls : model_calls[i] <= position

\* C24 witness: a short file was skipped after another file got its call
C24_Witness ==
    /\ position \in ShortFiles
    /\ last_file.outcome = "none"
    /\ model_calls # <<>>

\* the lines of a text, as a set
LineSet(text) == { SplitLines(text)[i] : i \in DOMAIN SplitLines(text) }

\* C25: lines_changed of a returned FileAnalysis is the number of lines that
\* are in the original content or in the rewritten content but not in both,
\* each counted once whatever its position or how often it occurs; original
\* a, b, c and rewritten a, b, d give 2.
C25_LinesChangedSymmetricDifference ==
    \A i \in DOMAIN analyses :
        LET a == analyses[i]
            both == LineSet(a.original_code) \cap LineSet(a.refactored_code) IN
        /\ a.lines_changed =
             Cardinality((LineSet(a.original_code) \cup LineSet(a.refactored_code)) \ both)
        /\ (a.original_code = Code.abc /\ a.refactored_code = Code.abd) => a.lines_changed = 2

\* C25 witness: the file a, b, c was rewritten to a, b, d
C25_Witness ==
    \E i \in DOMAIN analyses :
        /\ analyses[i].original_code = Code.abc
        /\ analyses[i].refactored_code = Code.abd
        /\ analyses[i].lines_changed = 2

\* the files of the groups named `package`, one group after the other
FilesOfGroup(groups, package) ==
    LET named == SelectSeq(groups, LAMBDA g : g.package = package) IN
    IF named = <<>> THEN <<>> ELSE named[1].files

\* C26: _group_by_package partitions the analyses: every FileAnalysis is in
\* exactly one group, in its original relative order; a file with a parent
\* directory is in the group named by its first path segment; the reserved
\* group "root" holds exactly the files without a parent directory, and no
\* file that lies inside a directory.
C26_GroupsPartitionByPackage ==
    mpc \notin {"idle", "start"} =>
        LET groups == analysis.packages IN
        /\ \A i, j \in DOMAIN groups : groups[i].package = groups[j].package => i = j
        /\ \A i \in DOMAIN analyses :
              Cardinality({ g \in DOMAIN groups : analyses[i] \in Range(groups[g].files) }) = 1
        /\ \A g \in DOMAIN groups :
              /\ groups[g].files # <<>>
              /\ groups[g].files = SelectSeq(analyses, LAMBDA a : a \in Range(groups[g].files))
        /\ \A i \in DOMAIN analyses :
              Len(analyses[i].file_path) > 1 =>
                  analyses[i] \in Range(FilesOfGroup(groups, analyses[i].file_path[1]))
        /\ FilesOfGroup(groups, "root") = SelectSeq(analyses, LAMBDA a : Len(a.file_path) = 1)

(***************************************************************************)
(* Claims about the run of main (SpecScan, SpecAnalyze)                    *)
(***************************************************************************)
\* C27: when the repository identity cannot be resolved (no usable remote and
\* no owner or repository name from the interactive fallback), the run ends
\* with a non-zero status.
C27_UnresolvedIdentityIsFatal ==
    (mpc = "done" /\ \E i \in DOMAIN prRuns : prRuns[i].gate = "no_repo") => exit = "1"

\* github cannot be used: not enabled, or its token does not resolve
GithubBlocked == ~IsEnabled(config, "github") \/ GetEnv(env, GITHUB_TOKEN) = <<>>

\* C28: with GITHUB_TOKEN unresolved or github not enabled, the scanner is
\* built and the scan completes as with the token, and every create_github_pr
\* call returns no URL without spawning a backend process and without asking
\* for the repository identity.
C28_MissingTokenBlocksPublishOnly ==
    (tpc = "ready" /\ GithubBlocked) =>
        /\ (exit = "1" /\ mpc = "start") => GetEnv(env, ANTHROPIC_API_KEY) = <<>>
        /\ (GetEnv(env, GITHUB_TOKEN) = <<>> /\ IsEnabled(config, "github")) => status.missing = <<"github">>
        /\ \A i \in DOMAIN prRuns :
              /\ prRuns[i].ret = "none"
              /\ ~prRuns[i].spawned
              /\ ~prRuns[i].repo_asked

\* C28 witness: the token is missing, the scan was made, the files were
\* rewritten and the create_github_pr call came back
C28_Witness ==
    /\ tpc = "ready" /\ GetEnv(env, GITHUB_TOKEN) = <<>>
    /\ status.missing # <<>>
    /\ mpc = "done" /\ exit = "0"
    /\ applied # <<>>
    /\ Len(prRuns) = 1

\* C29: a scan with no actionable file is a successful completion: the run
\* ends without a non-zero status, asks the operator nothing, writes no file
\* and makes no tool call.
C29_NothingToDoIsSuccess ==
    (mpc \notin {"idle", "start"} /\ analyses = <<>>) =>
        /\ mpc \in {"scanned", "done"}
        /\ exit = (IF mpc = "done" THEN "0" ELSE "none")
        /\ inputs = <<>>
        /\ applied = <<>>
        /\ prCalls = <<>> /\ prRuns = <<>>

\* C29 witness: files were discovered, none gave an analysis, and main is done
C29_Witness ==
    /\ mpc = "done" /\ exit = "0"
    /\ analyses = <<>>
    /\ Len(python_files) >= 2
    /\ model_calls # <<>>

\* C30: nothing is rewritten and no tool call is made before the scan has gone
\* through the whole file list; when the run is aborted while files are being
\* analyzed, no file was modified, no backend process was spawned, and the
\* analyses made so far are discarded.
C30_NothingPersistedBeforeScanEnds ==
    mpc = "start" =>
        /\ applied = <<>>
        /\ prCalls = <<>> /\ prRuns = <<>>
        /\ analysis = NoAnalysis
        /\ exit = "1" => analyses = <<>>

\* C30 witness: the run was aborted at the third file, after two model calls
\* that went through
C30_Witness ==
    /\ mpc = "start" /\ exit = "1"
    /\ last_file.outcome = "raise"
    /\ position = 3
    /\ Len(model_calls) = 3

(***************************************************************************)
(* Claims about the repository identity                                    *)
(***************************************************************************)
\* a remote https://github.com/OWNER/REPO.git or git@github.com:OWNER/REPO.git,
\* and the OWNER and REPO it names: what stands between the host and the
\* last ".git", cut at the first "/"
NamedRemote ==
    LET text == Strip(remote_url) IN
    /\ Len(text) >= 6
    /\ <<text[1], text[2]>> \in { <<"https://", "github.com/">>, <<"git@", "github.com:">> }
    /\ text[Len(text)] = ".git"
    /\ \E i \in 3..(Len(text) - 1) : text[i] = "/"
Named ==
    LET text == Strip(remote_url)
        slash == CHOOSE i \in 3..(Len(text) - 1) : text[i] = "/" /\ \A j \in 3..(i - 1) : text[j] # "/" IN
    [owner |-> SubSeq(text, 3, slash - 1), repo |-> SubSeq(text, slash + 1, Len(text) - 1)]

\* C31: for a remote of either syntax that ends in ".git", both look-ups
\* give the owner and the repository the remote names, with only the
\* trailing ".git" removed
C31_RepoInfoStripsSuffixOnly ==
    repo_info.by # "none" /\ NamedRemote =>
        /\ ~repo_info.raised
        /\ repo_info.owner = Named.owner
        /\ repo_info.repo = Named.repo

(***************************************************************************)
(* Claims about the order of the scan                                      *)
(***************************************************************************)
\* where a path stands in the discovery order
Discovered(path) == CHOOSE k \in DOMAIN python_files : python_files[k].path = path
Increasing(q) == \A i, j \in DOMAIN q : i < j => q[i] < q[j]

\* C32: the files go through analyze_file one at a time in discovery order:
\* the calls made so far are those of the first `position` files, one each,
\* the model calls were made in that order, every result collected comes
\* from a model call of a file already passed, the scan returns only when
\* every file has been passed, and the files of the aggregate are a
\* subsequence of the discovery order
C32_OneAtATimeInDiscoveryOrder ==
    /\ position \in 0..Len(python_files)
    /\ Increasing(model_calls)
    /\ \A i \in DOMAIN model_calls : model_calls[i] \in 1..position
    /\ exit = "none" /\ last_file.outcome \in {"analysis", "none"} /\ last_file.response.text # <<>> =>
           model_calls # <<>> /\ model_calls[Len(model_calls)] = position
    /\ \A i \in DOMAIN analyses :
           /\ \E k \in DOMAIN python_files : python_files[k].path = analyses[i].file_path
           /\ Discovered(analyses[i].file_path) \in Range(model_calls)
    /\ Increasing([i \in DOMAIN analyses |-> Discovered(analyses[i].file_path)])
    /\ mpc \notin {"idle", "start"} =>
           /\ position = Len(python_files)
           /\ analysis.files = analyses

\* a scan of three files has returned an aggregate of two of them, the
\* third having been skipped
C32_Witness ==
    /\ mpc = "scanned"
    /\ Len(python_files) = 3
    /\ Len(analysis.files) = 2
    /\ Len(model_calls) = 2
    /\ analysis.files[1].file_path = python_files[2].path
    /\ analysis.files[2].file_path = python_files[3].path

(***************************************************************************)
(* Claims about applying and publishing                                    *)
(***************************************************************************)
IsPrefix(p, q) == Len(p) <= Len(q) /\ p = SubSeq(q, 1, Len(p))

\* C33: main publishes only after the operator accepted and apply_changes
\* wrote every file: the files written are a prefix of the files of the
\* aggregate in list order; a create_github_pr call is made only when all
\* of them were written; and when a write failed the files before it stay
\* written, the later ones are not written, no call is made and no backend
\* process is spawned
C33_PublishOnlyAfterCompleteApply ==
    /\ mpc \notin {"idle", "start"} => IsPrefix(applied, PathsOf(analysis.files))
    /\ prCalls # <<>> \/ prRuns # <<>> \/ mpc = "publishing" =>
           /\ "create" \in Range(inputs)
           /\ analysis.files # <<>>
           /\ applied = PathsOf(analysis.files)
    /\ mpc = "done" /\ applied # PathsOf(analysis.files) =>
           /\ prCalls = <<>>
           /\ prRuns = <<>>

\* the second of three writes failed: the first file stays rewritten and
\* main has ended without a create_github_pr call
C33_Witness ==
    /\ mpc = "done"
    /\ Len(analysis.files) = 3
    /\ Len(applied) = 1
    /\ applied[1] = analysis.files[1].file_path
    /\ prCalls = <<>>
    /\ prRuns = <<>>

\* C34: create_github_pr never raises, and the value it returns is a URL
\* only when push_files and then create_pull_request were called, both
\* processes gave a parsed response without an 'error' field, and the result
\* of the second carried a non-empty html_url, or else a non-empty url; an
\* exception while a response is handled ends in no URL
C34_UrlOnlyAfterBothCalls ==
    prog = "scanner" =>
        /\ ret.kind \in {"pending", "none", "url"}
        /\ pc = "done" => ret.kind \in {"none", "url"}
        /\ mcpRet = RRaise => pc = "done" /\ ret = RNone
        /\ ret.kind = "url" =>
               /\ pc = "done"
               /\ calls = <<GithubPush, GithubPr>>
               /\ Parsed(pushOut) /\ ~HasErrorField(pushOut)
               /\ Parsed(prOut) /\ ~HasErrorField(prOut)
               /\ prOut.out.k = "dict" /\ prOut.out.result = "obj"
               /\ ret.url \notin {"", "absent"}
               /\ ret.url = (IF prOut.out.html_url \notin {"absent", ""}
                             THEN prOut.out.html_url ELSE prOut.out.url)

\* both calls went through and the result carried both fields: the URL
\* returned is html_url
C34_Witness ==
    /\ prog = "scanner" /\ pc = "done"
    /\ prOut.out.html_url = HtmlUrl /\ prOut.out.url = ApiUrl
    /\ ret = RUrl(HtmlUrl)

\* the git commands issued so far, by name
GitNames == [i \in DOMAIN gits |-> gits[i].cmd]
CommitFailed == \E i \in DOMAIN gits : gits[i].cmd \in Range(CommitCmds) /\ gits[i].end # "ok"
Committed == \E i \in DOMAIN gits : gits[i].cmd = "commit" /\ gits[i].end = "ok"

\* C35: create_pr_workflow runs branch-and-commit, push, create pull request
\* in that order, each at most once; nothing of the push starts before the
\* commit succeeded and a failed branch-and-commit leaves no tool call; the
\* create_pull_request call needs a successful push (by the tool, or by the
\* fallback git push); a URL is returned only when all three succeeded
C35_WorkflowStepsInOrder ==
    prog = "creator" =>
        /\ \A cmd \in Range(CommitCmds) \cup {"push"} : GitCount(cmd) <= 1
        /\ Count(calls, GithubPush) <= 1 /\ Count(calls, GithubPr) <= 1
        /\ calls \in {<<>>, <<GithubPush>>, <<GithubPr>>, <<GithubPush, GithubPr>>}
        /\ IsPrefix(SubSeq(GitNames, 1, GitCount("checkout") + GitCount("add") + GitCount("commit")), CommitCmds)
        /\ \A i \in DOMAIN gits : gits[i].cmd \in {"remote", "push"} => i > Len(CommitCmds) /\ Committed
        /\ calls # <<>> => Committed
        /\ CommitFailed => pc = "done" /\ calls = <<>> /\ GitCount("push") = 0 /\ ret.kind # "url"
        /\ pushed \in {"false", "raise"} =>
               /\ pc = "done" /\ ret.kind # "url"
               /\ Count(calls, GithubPr) = 0
               /\ GitCount("push") = 1
        /\ Count(calls, GithubPr) = 1 \/ pc \in {"c_pr", "c_pr_wait"} => pushed = "true"
        /\ pushed = "true" => Count(calls, GithubPush) = 1 \/ GitCount("push") = 1
        /\ ret.kind = "url" =>
               /\ pc = "done" /\ Committed /\ pushed = "true"
               /\ Count(calls, GithubPr) = 1
               /\ prResp.kind = "return"

\* the push_files call failed and so did the fallback git push: the
\* workflow ended without a create_pull_request call
C35_Witness ==
    /\ prog = "creator" /\ pc = "done"
    /\ calls = <<GithubPush>>
    /\ FailedCall(pushOut)
    /\ gits[Len(gits)] = Git("push", "fail")
    /\ pushed = "false"
    /\ ret = RNone

\* main publishes package by package
PerPackage == pr_strategy = "per-package" /\ mpc \in {"publishing", "done"} /\ Len(analysis.packages) > 1

\* C36: in per-package publishing the create_github_pr calls follow the
\* package groups in order, one call per group, each with the group's files,
\* the group's name as package name and the security flag cleared; a call
\* that fails does not stop the later ones: main ends only after the call for
\* the last group, and then every analyzed file is carried by exactly one call
C36_OneCallPerPackage ==
    PerPackage =>
        /\ Len(prCalls) <= Len(analysis.packages)
        /\ Len(prRuns) = Len(prCalls)
        /\ \A i \in DOMAIN prCalls :
               /\ prCalls[i].package_name = analysis.packages[i].package
               /\ prCalls[i].analysis.files = analysis.packages[i].files
               /\ prCalls[i].analysis.packages = <<analysis.packages[i]>>
               /\ ~prCalls[i].analysis.has_critical_security
        /\ \A i, j \in DOMAIN prCalls : prCalls[i].package_name = prCalls[j].package_name => i = j
        /\ mpc = "publishing" => Len(prCalls) < Len(analysis.packages)
        /\ mpc = "done" /\ applied = PathsOf(analysis.files) =>
               /\ Len(prCalls) = Len(analysis.packages)
               /\ \A k \in DOMAIN analysis.files :
                      Cardinality({ i \in DOMAIN prCalls :
                                      analysis.files[k] \in Range(prCalls[i].analysis.files) }) = 1

\* the call for the first of two packages failed and the call for the second
\* was made all the same, and returned a URL
C36_Witness ==
    /\ PerPackage /\ mpc = "done"
    /\ Len(analysis.packages) = 2
    /\ Len(prCalls) = 2
    /\ prRuns[1].ret = "none"
    /\ prRuns[2].ret = "url"

(***************************************************************************)
(* Claims about the partitions of check_tokens                             *)
(***************************************************************************)
\* C37: the three lists check_tokens returned share no server and name no
\* server twice; together they are the enabled servers of the catalog; a
\* server is 'present' only if every one of its variables is set and not
\* empty; an enabled server that is not in the catalog is in none of them,
\* and every variable of get_env_dict is a set variable of an enabled
\* auth-requiring server of the catalog
C37_PartitionsDisjointAndExact ==
    tlast = "check" =>
        LET missing == Range(status.missing)
            present == Range(status.present)
            not_needed == Range(status.not_needed)
            enabled == Range(get_enabled_servers(config))
            env_dict == get_env_dict(env, config) IN
        /\ missing \cap present = {} /\ missing \cap not_needed = {} /\ present \cap not_needed = {}
        /\ Len(status.missing) + Len(status.present) + Len(status.not_needed)
               = Cardinality(missing \cup present \cup not_needed)
        /\ missing \cup present \cup not_needed = enabled \cap DOMAIN MCP_CATALOG
        /\ \A x \in present :
               MCP_CATALOG[x].requires_auth /\ \A v \in Range(MCP_CATALOG[x].env_var) : Resolves(env, v)
        /\ \A x \in enabled \cap DOMAIN MCP_CATALOG :
               (MCP_CATALOG[x].requires_auth /\ \E v \in Range(MCP_CATALOG[x].env_var) : ~Resolves(env, v))
                   => x \in missing
        /\ \A x \in enabled \ DOMAIN MCP_CATALOG : x \notin missing \cup present \cup not_needed
        /\ \A i \in DOMAIN env_dict :
               /\ \E x \in enabled \cap DOMAIN MCP_CATALOG :
                      MCP_CATALOG[x].requires_auth /\ env_dict[i].key \in Range(MCP_CATALOG[x].env_var)
               /\ env_dict[i].value # <<>> /\ env_dict[i].value = GetEnv(env, env_dict[i].key)

\* an enabled server outside the catalog, and slack with one of its two
\* variables set: slack is missing
C37_Witness ==
    /\ tlast = "check"
    /\ IsEnabled(config, "unknown")
    /\ Resolves(env, SLACK_BOT_TOKEN) /\ ~Resolves(env, SLACK_TEAM_ID)
    /\ "slack" \in Range(status.missing)
    /\ "github" \in Range(status.present)

(***************************************************************************)
(* Claims about a reply that leaves the file as it is                      *)
(***************************************************************************)
\* the last analyze_file call got a <refactored_code> block whose body is
\* the content of the file, character for character
ReturnedUnchanged ==
    /\ GotText /\ position > 0
    /\ BlockOf("refactored_code").found
    /\ BlockOf("refactored_code").group = python_files[position].content

\* C38: when the model returns the file unchanged, the FileAnalysis has
\* lines_changed = 0, whatever the content (also one that ends with a
\* newline)
C38_UnchangedMeansZeroLines ==
    ReturnedUnchanged /\ last_file.outcome = "analysis" =>
        analyses[Len(analyses)].lines_changed = 0

(***************************************************************************)
(* Claims about the needs-work check                                       *)
(***************************************************************************)
\* the files passed to analyze_file so far that are readable and hold at
\* least MinContent characters once stripped
LongEnough == { p \in 1..position :
                  python_files[p].readable /\ TextLen(Strip(python_files[p].content)) >= MinContent }

\* C39: every readable file of at least 50 stripped characters that
\* analyze_file was called on caused exactly one model call: the needs-work
\* check returned true for it and the file was not skipped
C39_EveryLongFileCallsModel ==
    \A p \in LongEnough :
        /\ needs_refactoring(python_files[p].content) = "true"
        /\ Count(model_calls, p) = 1

====
